---- MODULE Spec2Model ----
(***************************************************************************)
(* A model of the CoinPlex SDK core: the request signer, the response      *)
(* cipher (RSA with chunked fallback, then AES), the authentication        *)
(* manager, the request dispatcher with its retry loop, and the quantify   *)
(* execution scheduler.                                                    *)
(*                                                                         *)
(* JavaScript runs one continuation at a time, so every action below is    *)
(* one run-to-completion step: the synchronous part of a call up to its    *)
(* first suspension, or the continuation that runs when a network call or  *)
(* a timer completes.                                                      *)
(***************************************************************************)
EXTENDS Integers, Sequences, FiniteSets, TLC

(***************************************************************************)
(* Bounds of the model.                                                    *)
(***************************************************************************)
MaxTicks == 3          \* clock advances explored
MaxSchedTicks == 2     \* clock advances explored under the scheduler
MaxCalls == 1          \* request() calls issued directly by the user
MaxLogins == 1         \* authenticate() calls, each awaited by its caller
MaxAuthLogins == 2     \* authenticate() calls, concurrent ones included
MaxIterations == 2     \* a schedule has 1..MaxIterations iterations
MaxFields == 2         \* custom fields of a payload
MaxResets == 1         \* resetStats() calls
MaxRetries == 3        \* executeWithRetry: maxRetries in 0..MaxRetries
MaxTextLen == 2        \* pieces of a text given to encryptAESString
MaxResults == 3        \* entries of a list given to getExecutionStats
MaxStarts == 2         \* loops launched by start() calls on one DailyExecutor
MaxChecks == 3         \* checks a monitorAds() loop starts

(***************************************************************************)
(* Texts.  A text is a sequence of pieces; concatenation is \o.  The       *)
(* pieces are chosen so that the tables below are true of the JavaScript   *)
(* functions they model.                                                   *)
(***************************************************************************)
P_OPEN == "{\"a\":"
P_CLOSE == "1}"
P_ZERO == "0"
P_WORD == "x"
P_PLUS == "+"
P_PCT == "%"
P_PCT20 == "%20"
P_SPACE == " "
P_B64 == "<base64>"
P_TOKEN == "{\"token\":\"t1\"}"
P_T1 == "t1"
P_T2 == "t2"

EmptyText == << >>

\* String.prototype.replace(/\+/g, '%20')
RECURSIVE ReplacePlus(_)
ReplacePlus(text) ==
  IF text = << >> THEN << >>
  ELSE << (IF Head(text) = P_PLUS THEN P_PCT20 ELSE Head(text)) >>
         \o ReplacePlus(Tail(text))

\* decodeURIComponent throws URIError on a '%' not followed by two hex digits
URIMalformed(text) == \E k \in 1..Len(text) : text[k] = P_PCT

RECURSIVE decodeURIComponent(_)
decodeURIComponent(text) ==
  IF text = << >> THEN << >>
  ELSE << (IF Head(text) = P_PCT20 THEN P_SPACE ELSE Head(text)) >>
         \o decodeURIComponent(Tail(text))

\* JSON.parse: whitespace between tokens is skipped; the documents of this
\* alphabet are the number 0 and the objects {"a":1} and {"token":"t1"}; all
\* else is a SyntaxError.
NoSpace(text) == SelectSeq(text, LAMBDA p : p # P_SPACE)

JSONIsValid(text) ==
  NoSpace(text) \in {<< P_ZERO >>, << P_OPEN, P_CLOSE >>, << P_TOKEN >>}

(***************************************************************************)
(* JavaScript values.  Every value is a record of one shape: its type t,   *)
(* the text of a string, the identity of a parsed JSON document, and, for  *)
(* a string, what the cryptographic primitives return when applied to it.  *)
(***************************************************************************)
RsaFalse == [r |-> "false", text |-> EmptyText]
RsaNull == [r |-> "null", text |-> EmptyText]
RsaText(text) == [r |-> "text", text |-> text]
AesThrow == [r |-> "throw", text |-> EmptyText]
AesText(text) == [r |-> "text", text |-> text]

\* a string on which every primitive fails
NoCt == [whole |-> RsaFalse, nbytes |-> 0,
         blk |-> [k \in 1..2 |-> RsaFalse],
         aes |-> AesText(EmptyText), aesB64 |-> AesText(EmptyText)]

Undefined == [t |-> "undefined", text |-> EmptyText, id |-> "", ct |-> NoCt]
Null == [t |-> "null", text |-> EmptyText, id |-> "", ct |-> NoCt]
JsNumber0 == [t |-> "number", text |-> EmptyText, id |-> "0", ct |-> NoCt]
JsObject(id) == [t |-> "object", text |-> EmptyText, id |-> id, ct |-> NoCt]
JsString(text) == [t |-> "string", text |-> text, id |-> "", ct |-> NoCt]
JsArray(id) == [t |-> "array", text |-> EmptyText, id |-> id, ct |-> NoCt]

\* typeof v === 'object' && v !== null: objects and arrays alike
IsObject(v) == v.t \in {"object", "array"}
Ciphertext(ct) == [t |-> "string", text |-> << P_B64 >>, id |-> "", ct |-> ct]

JsNumber1 == [t |-> "number", text |-> EmptyText, id |-> "1", ct |-> NoCt]

JSONParse(text) ==
  CASE NoSpace(text) = << P_ZERO >> -> JsNumber0
    [] NoSpace(text) = << P_TOKEN >> -> JsObject("tok1")
    [] OTHER -> JsObject("a1")

\* JavaScript truthiness of a value
Truthy(v) ==
  CASE v.t = "undefined" -> FALSE
    [] v.t = "null" -> FALSE
    [] v.t = "number" -> v.id # "0"
    [] v.t = "string" -> v.text # EmptyText
    [] OTHER -> TRUE

(***************************************************************************)
(* decryption.js                                                           *)
(***************************************************************************)
maxDecryptBlock == 128

\* number of chunks the loop at decryption.js:77 produces
NumChunks(nbytes) == (nbytes + maxDecryptBlock - 1) \div maxDecryptBlock

\* jsEncrypt.decrypt(chunks[k]) for k = 1..n, stopping at the first failure
ChunksAllDecrypt(ct) ==
  \A k \in 1..NumChunks(ct.nbytes) : ct.blk[k].r = "text"

RECURSIVE JoinChunks(_, _)
JoinChunks(ct, n) ==
  IF n = 0 THEN EmptyText ELSE JoinChunks(ct, n - 1) \o ct.blk[n].text

\* the value of decryptedResult at decryption.js:96, or "throw"
RsaPlaintext(ct) ==
  IF ct.whole.r \in {"false", "null"}
  THEN IF ChunksAllDecrypt(ct)
       THEN RsaText(JoinChunks(ct, NumChunks(ct.nbytes)))
       ELSE [r |-> "throw", text |-> EmptyText]
  ELSE ct.whole

\* decryptRSAResponse: the parsed JSON value, or Null on any failure
decryptRSAResponse(encryptedData) ==
  LET p == RsaPlaintext(encryptedData.ct)
      urlIn == ReplacePlus(p.text)
      urlDecoded == decodeURIComponent(urlIn)
  IN  IF p.r = "throw" \/ p.text = EmptyText THEN Null
      ELSE IF URIMalformed(urlIn) THEN Null
      ELSE IF ~JSONIsValid(urlDecoded) THEN Null
      ELSE JSONParse(urlDecoded)

\* decryptAESString: the plaintext string, or Null on any failure
decryptAESString(encryptedData) ==
  LET ct == encryptedData.ct
  IN  IF ct.aes.r = "throw" THEN Null
      ELSE IF ct.aes.text # EmptyText THEN JsString(ct.aes.text)
      ELSE IF ct.aesB64.r = "throw" THEN Null
      ELSE IF ct.aesB64.text # EmptyText THEN JsString(ct.aesB64.text)
      ELSE Null

\* encryptAESString(text, key): CryptoJS.AES.encrypt(text, key).toString().
\* The string it returns decrypts to text under the same key; read as bare
\* base64 ciphertext, as the second attempt of decryptAESString reads it,
\* the salt header is part of the data and the key is derived from a fresh
\* random salt, so what comes out is junk: bytes that are not UTF-8 (a
\* throw), no bytes, or a stray printable string.
encryptAESString(text, key, junk) ==
  [t |-> "string", text |-> << P_B64, key >>, id |-> "",
   ct |-> [NoCt EXCEPT !.aes = AesText(text), !.aesB64 = junk,
                       !.nbytes = 128]]

\* an envelope as it comes off the wire
Envelope(data, code) ==
  [data |-> data, code |-> code,
   originalEncryptedData |-> Undefined, decryptionMethod |-> "undefined"]

\* a guard that lets every truthy data field through to the decryption
HasCiphertext_anyTruthy(response) == Truthy(response.data)

\* the negation of the test at decryption.js:169
HasCiphertext(response) ==
  Truthy(response.data) /\ response.data.t = "string"

\* the decryption functions processApiResponse calls on the way
DecryptionsTried(response) ==
  IF ~HasCiphertext(response) THEN {}
  ELSE IF Truthy(decryptRSAResponse(response.data)) THEN {"RSA"}
  ELSE {"RSA", "AES"}

\* processApiResponse tagging the envelope even when the AES path gave nothing
processApiResponse_tagsFailure(response) ==
  IF ~HasCiphertext(response) THEN response
  ELSE LET rsaDecrypted == decryptRSAResponse(response.data)
       IN  IF Truthy(rsaDecrypted)
           THEN [response EXCEPT !.data = rsaDecrypted,
                                 !.originalEncryptedData = response.data,
                                 !.decryptionMethod = "RSA"]
           ELSE [response EXCEPT !.originalEncryptedData = response.data,
                                 !.decryptionMethod = "AES"]

processApiResponse(response) ==
  IF ~HasCiphertext(response) THEN response
  ELSE LET rsaDecrypted == decryptRSAResponse(response.data)
           aesDecrypted == decryptAESString(response.data)
       IN  IF Truthy(rsaDecrypted)
           THEN [response EXCEPT !.data = rsaDecrypted,
                                 !.originalEncryptedData = response.data,
                                 !.decryptionMethod = "RSA"]
           ELSE IF Truthy(aesDecrypted)
           THEN [response EXCEPT
                   !.data = IF JSONIsValid(aesDecrypted.text)
                            THEN JSONParse(aesDecrypted.text)
                            ELSE aesDecrypted,
                   !.originalEncryptedData = response.data,
                   !.decryptionMethod = "AES"]
           ELSE response

(***************************************************************************)
(* State.                                                                  *)
(***************************************************************************)
VARIABLES
  now,               \* the wall clock, in ms
  token,             \* AuthenticationManager.token
  tokenExpiry,       \* AuthenticationManager.tokenExpiry (NullTime: null)
  isAuthenticated,   \* AuthenticationManager.isAuthenticated
  logins,            \* authenticate() calls: made, in flight, last settled;
                     \* outAt: how many had been made at the last logout()
  hLogin,            \* history: the last successful login not yet logged out
  autoRetry,         \* config.autoRetry
  resets,            \* history: resetStats() calls so far
  stats,             \* CoinPlexClient.stats
  req,               \* the request() call of each caller
  calls,             \* request() calls made by the user so far
  netCalls,          \* history: network attempts sent by request()
  schedPc,           \* where the scheduler loop is
  iterations,        \* schedule.iterations
  intervalMinutes,   \* schedule.intervalMinutes
  iter,              \* the loop variable i
  isRunning,         \* the closure's isRunning
  currentIteration,  \* the closure's currentIteration
  results,           \* the closure's results
  sleepUntil,        \* when the inter-iteration delay elapses
  hSched,            \* history of the schedule
  response,          \* the envelope given to processApiResponse
  processed,         \* what processApiResponse returned
  customParams,      \* the field map given to the signer
  apiSecret,         \* config.apiSecret
  signature,         \* what calculateSignature returned
  payload,           \* what prepareSignedPayload returned
  verified,          \* what verifySignature returned
  executor,          \* the DailyExecutor: options.stopOnError and its fields
  retry,             \* the executeWithRetry() call
  aesTrip,           \* a text, its AES ciphertext and the decryption of that
  statsCall,         \* a getExecutionStats() call: its argument and result
  multi,             \* a DailyExecutor started and stopped repeatedly
  monitor            \* a monitorAds() loop and the handle it returned

authVars == << token, tokenExpiry, isAuthenticated, logins, hLogin >>
dispatchVars == << autoRetry, resets, stats, req, calls, netCalls >>
schedVars == << schedPc, iterations, intervalMinutes, iter, isRunning,
                currentIteration, results, sleepUntil, hSched >>
cipherVars == << response, processed >>
signVars == << customParams, apiSecret, signature, payload, verified >>
execVars == << executor >>
utilVars == << retry, aesTrip, statsCall, multi, monitor >>
vars == << now, authVars, dispatchVars, schedVars, cipherVars, signVars,
          execVars, utilVars >>

(***************************************************************************)
(* The clock.  Timers fire no earlier than asked; the clock advances by    *)
(* one backoff unit or by a whole token lifetime.                          *)
(***************************************************************************)
TokenTTL == 24 * 60 * 60 * 1000
RetryUnit == 1000
NullTime == -1

ticks == (now % TokenTTL) \div RetryUnit + now \div TokenTTL

\* something reads the clock: a token may expire or a timer is pending
ClockObserved ==
  \/ tokenExpiry # NullTime /\ now < tokenExpiry
  \/ \E c \in DOMAIN req : req[c].pc = "backoff" /\ now < req[c].wakeAt
  \/ schedPc = "sleep" /\ now < sleepUntil
  \/ retry.pc = "waiting" /\ now < retry.wakeAt

Tick ==
  /\ ticks < MaxTicks
  /\ ClockObserved
  /\ \E d \in {RetryUnit, TokenTTL} : now' = now + d
  /\ UNCHANGED << authVars, dispatchVars, schedVars, cipherVars, signVars,
                  execVars, utilVars >>

\* the instants something is waiting for: the token's expiry and the timers
\* of the pending delays
Deadlines ==
  { d \in {tokenExpiry} : tokenExpiry # NullTime /\ now < d }
    \cup { req[c].wakeAt : c \in { x \in DOMAIN req :
                               req[x].pc = "backoff" /\ now < req[x].wakeAt } }
    \cup { d \in {sleepUntil} : schedPc = "sleep" /\ now < d }

\* time passes until one of them is reached
AdvanceClock ==
  /\ \E d \in Deadlines : now' = d
  /\ UNCHANGED << authVars, dispatchVars, schedVars, cipherVars, signVars,
                  execVars, utilVars >>

(***************************************************************************)
(* Parsed JSON documents: the fields of each object, in insertion order.   *)
(***************************************************************************)
Field(k, v) == [k |-> k, v |-> v]

ObjFields(id) ==
  CASE id = "a1" -> << Field("a", JsNumber1) >>
    [] id = "tok1" -> << Field("token", JsString(<< P_T1 >>)) >>
    [] id = "tok2" -> << Field("code", JsNumber0),
                         Field("data", JsObject("tok2data")) >>
    [] id = "tok2data" -> << Field("token", JsString(<< P_T2 >>)) >>
    [] id = "deep1" -> << Field("code", JsNumber0),
                          Field("list", JsObject("a1")),
                          Field("result", JsObject("deep2")) >>
    [] id = "deep2" -> << Field("name", JsString(<< P_WORD >>)),
                          Field("user", JsObject("deep3")) >>
    [] id = "deep3" -> << Field("id", JsNumber1),
                          Field("token", JsString(<< P_T1 >>)) >>
    [] id = "none1" -> << Field("code", JsNumber0),
                          Field("data", JsObject("a1")) >>
    [] id = "blank1" -> << Field("code", JsNumber0),
                           Field("data", JsObject("blank2")) >>
    [] id = "blank2" -> << Field("token", JsString(EmptyText)) >>
    [] id = "inarr1" -> << Field("code", JsNumber0),
                           Field("items", JsArray("arr1")) >>
    [] id = "arr1" -> << Field("0", JsObject("a1")),
                         Field("1", JsObject("tok1")) >>
    [] OTHER -> << >>

\* obj[key], Undefined when obj has no such property
Get(obj, key) ==
  IF obj.t # "object" THEN Undefined
  ELSE LET f == ObjFields(obj.id)
           hit == {n \in 1..Len(f) : f[n].k = key}
       IN  IF hit = {} THEN Undefined ELSE f[CHOOSE n \in hit : TRUE].v

(***************************************************************************)
(* signature.js.  An object is the sequence of its fields in insertion     *)
(* order.  Keys are compared the way Array.prototype.sort compares         *)
(* strings: by UTF-16 code units.                                          *)
(***************************************************************************)
CodeUnits(key) ==
  CASE key = "B" -> << 66 >>
    [] key = "a" -> << 97 >>
    [] key = "apiKey" -> << 97, 112, 105, 75, 101, 121 >>
    [] key = "sign" -> << 115, 105, 103, 110 >>
    [] key = "timestamp" -> << 116, 105, 109, 101, 115, 116, 97, 109, 112 >>

RECURSIVE UnitsLess(_, _)
UnitsLess(u, w) ==
  IF w = << >> THEN FALSE
  ELSE IF u = << >> THEN TRUE
  ELSE IF Head(u) # Head(w) THEN Head(u) < Head(w)
  ELSE UnitsLess(Tail(u), Tail(w))

KeyLess(j, k) == UnitsLess(CodeUnits(j), CodeUnits(k))

\* Object.keys(obj)
ObjectKeys(obj) == [n \in 1..Len(obj) |-> obj[n].k]

Has(obj, key) == \E n \in 1..Len(obj) : obj[n].k = key

\* obj[key] of a field map
Prop(obj, key) ==
  IF Has(obj, key)
  THEN obj[CHOOSE n \in 1..Len(obj) : obj[n].k = key].v
  ELSE Undefined

\* obj[key] = v: an existing key keeps its place, a new one goes last
Assign(obj, key, v) ==
  IF Has(obj, key)
  THEN [n \in 1..Len(obj) |-> IF obj[n].k = key THEN Field(key, v) ELSE obj[n]]
  ELSE Append(obj, Field(key, v))

\* delete obj[key]
Delete(obj, key) == SelectSeq(obj, LAMBDA f : f.k # key)

\* keys.sort(): insert each key before the first larger one
RECURSIVE InsertKey(_, _)
InsertKey(sorted, key) ==
  IF sorted = << >> THEN << key >>
  ELSE IF KeyLess(key, Head(sorted)) THEN << key >> \o sorted
  ELSE << Head(sorted) >> \o InsertKey(Tail(sorted), key)

\* calculateSignature without the sort of the keys
SortKeys_insertionOrder(keys) == keys

RECURSIVE SortKeys(_)
SortKeys(keys) ==
  IF keys = << >> THEN << >>
  ELSE InsertKey(SortKeys(Tail(keys)), Head(keys))

\* `${value}`
ToText(v) ==
  CASE v.t = "string" -> v.text
    [] v.t = "number" -> << v.id >>
    [] v.t = "null" -> << "null" >>
    [] v.t = "undefined" -> << "undefined" >>
    [] OTHER -> << "[object Object]" >>

\* the forEach of signature.js:30-33 over the sorted keys from position n on
RECURSIVE SignatureBase(_, _, _)
SignatureBase(data, sortedKeys, n) ==
  IF n > Len(sortedKeys) THEN << >>
  ELSE (IF n > 1 THEN << "&" >> ELSE << >>)
       \o << sortedKeys[n], "=" >> \o ToText(Prop(data, sortedKeys[n]))
       \o SignatureBase(data, sortedKeys, n + 1)

\* HMAC-SHA256 as hex: a string that determines the key and the message
HmacHex(secret, message) == JsString(<< "hmac", secret >> \o message)

calculateSignature(data, secret) ==
  HmacHex(secret, SignatureBase(data, SortKeys(ObjectKeys(data)), 1))

\* the value is one that signature.js:63 strips
IsStripped(v) ==
  v.t = "undefined" \/ v.t = "null" \/ (v.t = "string" /\ v.text = << >>)

JsTimestamp == [t |-> "number", text |-> EmptyText, id |-> "1700000000000",
                ct |-> NoCt]

prepareSignedPayload(params, apiKey, secret) ==
  LET withTime == IF ~Truthy(Prop(params, "timestamp"))
                  THEN Assign(params, "timestamp", JsTimestamp)
                  ELSE params
      withKey == IF ~Truthy(Prop(withTime, "apiKey"))
                 THEN Assign(withTime, "apiKey", apiKey)
                 ELSE withTime
      stripped == SelectSeq(withKey, LAMBDA f : ~IsStripped(f.v))
  IN  Assign(stripped, "sign", calculateSignature(stripped, secret))

verifySignature(signed, secret) ==
  IF ~Truthy(Prop(signed, "sign")) THEN FALSE
  ELSE Prop(signed, "sign") = calculateSignature(Delete(signed, "sign"), secret)

(***************************************************************************)
(* The HTTP exchange.  A body is JSON text: either it does not parse, or   *)
(* it is an envelope.                                                      *)
(***************************************************************************)
NoEnvelope == Envelope(Undefined, 0)
BadBody == [valid |-> FALSE, env |-> NoEnvelope]
Body(env) == [valid |-> TRUE, env |-> env]

CtRsa(text) == [NoCt EXCEPT !.whole = RsaText(text), !.nbytes = 128]
CtAes(text) == [NoCt EXCEPT !.aes = AesText(text), !.nbytes = 128]
CtNone == [NoCt EXCEPT !.nbytes = 128]

StatusCodes == {200, 500}

NoOutcome ==
  [kind |-> "none", attempt |-> 0, why |-> "", statusCode |-> 0,
   data |-> Undefined, decryptionMethod |-> "undefined",
   originalData |-> NoEnvelope, parseError |-> FALSE]

\* the object the 'end' handler resolves with (CoinPlexClient.js:258-278)
HttpResolve(statusCode, body) ==
  IF body.valid
  THEN LET decryptedResponse == processApiResponse(body.env)
       IN  [NoOutcome EXCEPT !.kind = "response",
                             !.statusCode = statusCode,
                             !.data = decryptedResponse.data,
                             !.originalData = body.env,
                             !.decryptionMethod =
                                decryptedResponse.decryptionMethod]
  ELSE [NoOutcome EXCEPT !.kind = "response", !.statusCode = statusCode,
                         !.data = JsString(<< P_WORD >>),
                         !.parseError = TRUE]

\* the Error the 'error' / 'timeout' handlers reject with, one per attempt
TransportError(why, attempt) ==
  [NoOutcome EXCEPT !.kind = "error", !.why = why, !.attempt = attempt]

NotAuthenticatedError == [NoOutcome EXCEPT !.kind = "NotAuthenticated"]

(***************************************************************************)
(* AuthenticationManager                                                   *)
(***************************************************************************)
\* _isTokenExpired with > in place of >=
isTokenExpired_late ==
  IF tokenExpiry = NullTime THEN TRUE ELSE now > tokenExpiry

isTokenExpired ==
  IF tokenExpiry = NullTime THEN TRUE ELSE now >= tokenExpiry

getToken ==
  IF ~isAuthenticated \/ isTokenExpired THEN Null ELSE token

isTokenValid == isAuthenticated /\ ~isTokenExpired

RECURSIVE findTokenIn(_, _)
\* a search that descends through plain objects and skips arrays
findToken_objectsOnly(obj) ==
  IF obj.t # "object" THEN Null
  ELSE IF Truthy(Get(obj, "token")) THEN Get(obj, "token")
  ELSE findTokenIn(ObjFields(obj.id), 1)

\* findToken at debug-decryption.js:306; the for-in loop enumerates the
\* indices of an array as it does the keys of an object
findToken(obj) ==
  IF ~IsObject(obj) THEN Null
  ELSE IF Truthy(Get(obj, "token")) THEN Get(obj, "token")
  ELSE findTokenIn(ObjFields(obj.id), 1)

\* a search that looks at one object and never into its fields
findTokenIn_shallow(fields, n) == Null

\* the for-in loop of findToken over the fields from position n on
findTokenIn(fields, n) ==
  IF n > Len(fields) THEN Null
  ELSE LET result == findToken(fields[n].v)
       IN  IF Truthy(result) THEN result ELSE findTokenIn(fields, n + 1)

extractTokenFromResponse(resp) ==
  IF IsObject(resp.data) /\ Truthy(Get(resp.data, "token"))
  THEN Get(resp.data, "token")
  ELSE IF Truthy(resp.data) /\ Truthy(Get(resp.data, "data"))
          /\ Truthy(Get(Get(resp.data, "data"), "token"))
  THEN Get(Get(resp.data, "data"), "token")
  ELSE IF Truthy(resp.data) THEN findToken(resp.data)
  ELSE Null

LoginBodies ==
  { BadBody,
    Body(Envelope(JsObject("a1"), 0)),
    Body(Envelope(JsObject("tok1"), 0)),
    Body(Envelope(JsObject("tok2"), 0)),
    Body(Envelope(JsObject("deep1"), 0)),
    Body(Envelope(JsObject("none1"), 0)),
    Body(Envelope(JsObject("blank1"), 0)),
    Body(Envelope(JsObject("inarr1"), 0)),
    Body(Envelope(Ciphertext(CtRsa(<< P_TOKEN >>)), 0)),
    Body(Envelope(Ciphertext(CtNone), 0)) }

\* history: the last login that succeeded with no logout since
NoLogin == [at |-> NullTime, token |-> Null]

\* authenticate(), up to the await of the login request
Authenticate(max) ==
  /\ logins.made < max
  /\ logins' = [logins EXCEPT !.made = @ + 1, !.inFlight = @ + 1]
  /\ UNCHANGED << now, token, tokenExpiry, isAuthenticated, hLogin,
                  dispatchVars, schedVars, cipherVars, signVars, execVars,
                  utilVars >>

\* the login answers that matter to a caller that never looks at the token's
\* value: one with a token, one without
PlainLoginBodies ==
  { Body(Envelope(JsObject("a1"), 0)), Body(Envelope(JsObject("tok1"), 0)) }

\* how an authenticate() call settled: how is "token", "noToken" or "error",
\* value what the manager returned, thrown whether it rejected instead
NotSettled ==
  [how |-> "none", value |-> Undefined, thrown |-> FALSE, data |-> Undefined]
Settled(how, value, data) ==
  [how |-> how, value |-> value, thrown |-> FALSE, data |-> data]

\* CoinPlexClient.authenticate(): !!token
ClientAuthenticate(settled) == Truthy(settled.value)

\* a manager that takes the session as authenticated before it has looked
\* for the token
SessionAfterLogin_eager(extracted) ==
  [token |-> extracted, isAuthenticated |-> TRUE,
   tokenExpiry |-> now + TokenTTL]

\* the manager's fields after the login response (authenticate(), if (token))
SessionAfterLogin(extracted) ==
  IF Truthy(extracted)
  THEN [token |-> extracted, isAuthenticated |-> TRUE,
        tokenExpiry |-> now + TokenTTL]
  ELSE [token |-> token, isAuthenticated |-> isAuthenticated,
        tokenExpiry |-> tokenExpiry]

\* the 'end' handler of the login request and the rest of authenticate()
LoginAnswered(bodies) ==
  /\ logins.inFlight > 0
  /\ \E statusCode \in StatusCodes, body \in bodies :
       LET resp == HttpResolve(statusCode, body)
           extracted == extractTokenFromResponse(resp)
           after == SessionAfterLogin(extracted)
       IN  /\ token' = after.token
           /\ isAuthenticated' = after.isAuthenticated
           /\ tokenExpiry' = after.tokenExpiry
           /\ IF Truthy(extracted)
              THEN /\ hLogin' = [at |-> now, token |-> extracted]
                   /\ logins' = [logins EXCEPT
                                   !.inFlight = @ - 1,
                                   !.last = Settled("token", extracted,
                                                   resp.data)]
              ELSE /\ hLogin' = hLogin
                   /\ logins' = [logins EXCEPT
                                   !.inFlight = @ - 1,
                                   !.last = Settled("noToken", Null,
                                                   resp.data)]
  /\ UNCHANGED << now, dispatchVars, schedVars, cipherVars, signVars >>

\* the login request was answered
LoginResponse(bodies) ==
  LoginAnswered(bodies) /\ UNCHANGED << execVars, utilVars >>

\* the 'error' handler of the login request and the catch of authenticate()
LoginRejected ==
  /\ logins.inFlight > 0
  /\ logins' = [logins EXCEPT !.inFlight = @ - 1,
                              !.last = Settled("error", Null, Undefined)]
  /\ UNCHANGED << now, token, tokenExpiry, isAuthenticated, hLogin,
                  dispatchVars, schedVars, cipherVars, signVars >>

\* the login request failed at transport level
LoginError == LoginRejected /\ UNCHANGED << execVars, utilVars >>

\* the caller awaits authenticate() before it calls it again
Login ==
  /\ logins.inFlight = 0
  /\ Authenticate(MaxLogins)

\* a logout that drops the token and forgets the flag and the expiry
Logout_tokenOnly ==
  /\ token' = Null
  /\ hLogin' = NoLogin
  /\ logins' = [logins EXCEPT !.outAt = logins.made]
  /\ UNCHANGED << now, tokenExpiry, isAuthenticated, dispatchVars,
                  schedVars, cipherVars, signVars, execVars, utilVars >>

Logout ==
  /\ token' = Null
  /\ tokenExpiry' = NullTime
  /\ isAuthenticated' = FALSE
  /\ hLogin' = NoLogin
  /\ logins' = [logins EXCEPT !.outAt = logins.made]
  /\ UNCHANGED << now, dispatchVars, schedVars, cipherVars,
                  signVars, execVars, utilVars >>

(***************************************************************************)
(* CoinPlexClient.request                                                  *)
(***************************************************************************)
Callers == {"user", "sched", "retry"}

NewRequest ==
  [pc |-> "idle", attempts |-> 0, sent |-> 0, delays |-> << >>,
   wakeAt |-> 0, header |-> Undefined,
   outcome |-> NoOutcome]

maxAttempts == IF autoRetry THEN 3 ELSE 1

\* the argument of _delay at CoinPlexClient.js:158
\* a constant wait in place of the linear one
BackoffDelay_constant(attempts) == RetryUnit

BackoffDelay(attempts) == RetryUnit * attempts

\* the test at CoinPlexClient.js:116
\* request() looking at the login flag only, not at the expiry
RequestAllowed_loginFlagOnly == isAuthenticated

RequestAllowed == isTokenValid

\* lines 133-134: the attempt is counted, the token is read and attached,
\* the request is written to the socket
SendAttempt(r) ==
  [r EXCEPT !.pc = "inflight", !.sent = @ + 1, !.header = getToken]

\* request() up to its first await
CallRequest(c) ==
  IF RequestAllowed
  THEN /\ req' = [req EXCEPT ![c] = SendAttempt(NewRequest)]
       /\ stats' = [stats EXCEPT !.requests = @ + 1]
       /\ netCalls' = netCalls + 1
  ELSE /\ req' = [req EXCEPT ![c] = [NewRequest EXCEPT
                                       !.pc = "done",
                                       !.outcome = NotAuthenticatedError]]
       /\ UNCHANGED << stats, netCalls >>

\* the user calls client.request(...)
UserRequest ==
  /\ calls < MaxCalls
  /\ req["user"].pc \in {"idle", "done"}
  /\ CallRequest("user")
  /\ calls' = calls + 1
  /\ UNCHANGED << now, authVars, autoRetry, resets, schedVars, cipherVars,
                  signVars, execVars, utilVars >>

\* ciphertexts that neither path decrypts: RSA yields text that is not JSON
\* and AES throws; RSA fails in every chunk and AES yields nothing
CtNotJson == [NoCt EXCEPT !.whole = RsaText(<< P_WORD >>), !.nbytes = 128,
                          !.aes = AesThrow]
CtBadChunk == [NoCt EXCEPT !.nbytes = 256,
                           !.blk = [k \in 1..2 |-> IF k = 1
                                                   THEN RsaText(<< P_OPEN >>)
                                                   ELSE RsaFalse]]

DispatchBodies ==
  { BadBody,
    Body(Envelope(JsObject("a1"), 0)),
    Body(Envelope(Ciphertext(CtRsa(<< P_OPEN, P_CLOSE >>)), 0)),
    Body(Envelope(Ciphertext(CtAes(<< P_WORD >>)), 0)),
    Body(Envelope(Ciphertext(CtNone), 0)),
    Body(Envelope(Ciphertext(CtNotJson), 0)),
    Body(Envelope(Ciphertext(CtBadChunk), 0)) }

\* What the server may answer to a caller.  The scheduler passes the data of
\* whatever execute() returns on without looking at it (quantify.js:31-32,
\* 153-162), so one answer stands for all of them there.
Answers(c) ==
  CASE c = "sched" -> {<< 200, Body(Envelope(JsObject("a1"), 0)) >>}
    [] c = "retry" -> {<< 200, Body(Envelope(JsObject("a1"), 0)) >>,
                       << 500, BadBody >>}
    [] OTHER -> StatusCodes \X DispatchBodies

FailureKinds(c) == IF c = "sched" THEN {"error"} ELSE {"error", "timeout"}

\* statistics that count every answered attempt as a success
StatsAfterResponse_ignoresStatus(resp) ==
  IF resp.decryptionMethod # "undefined"
  THEN [stats EXCEPT !.successful = @ + 1, !.encrypted = @ + 1]
  ELSE [stats EXCEPT !.successful = @ + 1]

\* the statistics after an attempt resolved (lines 136-145)
StatsAfterResponse(resp) ==
  LET byStatus == IF resp.statusCode >= 200 /\ resp.statusCode < 300
                  THEN [stats EXCEPT !.successful = @ + 1]
                  ELSE [stats EXCEPT !.failed = @ + 1]
  IN  IF resp.decryptionMethod # "undefined"
      THEN [byStatus EXCEPT !.encrypted = @ + 1]
      ELSE byStatus

\* a dispatcher that takes a non-2xx response for a failed attempt
AfterResponse_retriesOnStatus(r, resp) ==
  IF (resp.statusCode < 200 \/ resp.statusCode >= 300)
     /\ r.attempts + 1 < maxAttempts
  THEN [r EXCEPT !.attempts = @ + 1, !.pc = "backoff",
                 !.delays = Append(@, BackoffDelay(r.attempts + 1)),
                 !.wakeAt = now + BackoffDelay(r.attempts + 1)]
  ELSE [r EXCEPT !.pc = "done", !.outcome = resp]

\* return response (line 147)
AfterResponse(r, resp) == [r EXCEPT !.pc = "done", !.outcome = resp]

\* an HTTP response arrived for the attempt in flight (lines 136-147)
AttemptResponse(c) ==
  /\ req[c].pc = "inflight"
  /\ \E answer \in Answers(c) :
       LET resp == HttpResolve(answer[1], answer[2])
       IN  /\ req' = [req EXCEPT ![c] = AfterResponse(req[c], resp)]
           /\ stats' = StatsAfterResponse(resp)
  /\ UNCHANGED << now, authVars, autoRetry, resets, calls, netCalls, schedVars,
                  cipherVars, signVars, execVars, utilVars >>

\* the catch block (lines 149-159), given the error of the failed attempt
AfterFailure(r, why) ==
  LET n == r.attempts + 1
  IN  IF n >= maxAttempts
      THEN [r EXCEPT !.attempts = n, !.pc = "done",
                     !.outcome = TransportError(why, r.sent)]
      ELSE [r EXCEPT !.attempts = n, !.pc = "backoff",
                     !.delays = Append(@, BackoffDelay(n)),
                     !.wakeAt = now + BackoffDelay(n)]

\* the attempt in flight failed at transport level: 'error' or 'timeout'
AttemptFails(c) ==
  /\ req[c].pc = "inflight"
  /\ \E why \in FailureKinds(c) :
       req' = [req EXCEPT ![c] = AfterFailure(req[c], why)]
  /\ stats' = [stats EXCEPT !.failed = @ + 1]
  /\ UNCHANGED << now, authVars, autoRetry, resets, calls, netCalls, schedVars,
                  cipherVars, signVars, execVars, utilVars >>

NoStats == [requests |-> 0, successful |-> 0, failed |-> 0, encrypted |-> 0]

\* a reset that forgets three of the four counters
ResetStats_requestsOnly ==
  /\ resets < MaxResets
  /\ stats # NoStats
  /\ stats' = [stats EXCEPT !.requests = 0]
  /\ resets' = resets + 1
  /\ UNCHANGED << now, authVars, autoRetry, req, calls, netCalls, schedVars,
                  cipherVars, signVars, execVars, utilVars >>

\* resetStats(); resetting counters that are all zero changes nothing
ResetStats ==
  /\ resets < MaxResets
  /\ stats # NoStats
  /\ stats' = NoStats
  /\ resets' = resets + 1
  /\ UNCHANGED << now, authVars, autoRetry, req, calls, netCalls, schedVars,
                  cipherVars, signVars, execVars, utilVars >>

\* the backoff timer fired: the loop sends the next attempt
BackoffElapsed(c) ==
  /\ req[c].pc = "backoff"
  /\ now >= req[c].wakeAt
  /\ req' = [req EXCEPT ![c] = SendAttempt(req[c])]
  /\ stats' = [stats EXCEPT !.requests = @ + 1]
  /\ netCalls' = netCalls + 1
  /\ UNCHANGED << now, authVars, autoRetry, resets, calls, schedVars,
                  cipherVars,
                  signVars, execVars, utilVars >>

(***************************************************************************)
(* QuantifyAPI.executeWithRetry                                            *)
(***************************************************************************)
RetryDelays == {0, RetryUnit}

\* no executeWithRetry() call yet.  calledAt and failedAt are history: when
\* each execute() was called and when each one rejected.
NoRetry ==
  [pc |-> "idle", maxRetries |-> 0, retryDelay |-> 0, attempt |-> 0,
   wakeAt |-> 0, lastError |-> NoOutcome, settled |-> NoOutcome,
   resultAttempt |-> 0, success |-> FALSE,
   calledAt |-> << >>, failedAt |-> << >>, waits |-> << >>]

\* a wait that does not grow with the attempt number
RetryWait_constant(r) == r.retryDelay

\* the argument of _delay at quantify.js:73
RetryWait(r) == r.retryDelay * r.attempt

\* for (attempt = 1; attempt <= maxRetries; ...): attempt n is made, or the
\* loop is left and line 78 throws with the last error
NextAttempt(r, n) ==
  IF n <= r.maxRetries
  THEN [r EXCEPT !.pc = "calling", !.attempt = n,
                 !.calledAt = Append(@, now)]
  ELSE [r EXCEPT !.pc = "rejected", !.attempt = n, !.settled = r.lastError]

\* executeWithRetry(maxRetries, retryDelay), up to its first await
RetryCall ==
  /\ retry.pc = "idle"
  /\ \E m \in 0..MaxRetries, d \in RetryDelays :
       retry' = NextAttempt([retry EXCEPT !.maxRetries = m,
                                          !.retryDelay = d], 1)
  /\ IF retry'.pc = "calling"
     THEN CallRequest("retry")
     ELSE UNCHANGED << req, stats, netCalls >>
  /\ UNCHANGED << now, authVars, autoRetry, resets, calls, schedVars,
                  cipherVars, signVars, execVars, aesTrip, statsCall,
                  multi, monitor >>

\* the execute() awaited at line 47 settled: return its result (lines 52-66)
\* or catch its error and wait, unless it was the last attempt (lines 68-75)
RetrySettled ==
  LET out == req["retry"].outcome
      failed == [retry EXCEPT !.lastError = out,
                              !.failedAt = Append(@, now)]
  IN  /\ retry.pc = "calling"
      /\ req["retry"].pc = "done"
      /\ retry' =
           IF out.kind = "response"
           THEN [retry EXCEPT !.pc = "returned", !.settled = out,
                              !.resultAttempt = retry.attempt,
                              !.success = TRUE]
           ELSE IF retry.attempt < retry.maxRetries
           THEN [failed EXCEPT !.pc = "waiting",
                               !.waits = Append(@, RetryWait(retry)),
                               !.wakeAt = now + RetryWait(retry)]
           ELSE NextAttempt(failed, retry.attempt + 1)
      /\ UNCHANGED << now, authVars, dispatchVars, schedVars, cipherVars,
                      signVars, execVars, aesTrip, statsCall, multi, monitor >>

\* the _delay of line 73 elapsed: the loop makes its next attempt
RetryWakes ==
  /\ retry.pc = "waiting"
  /\ now >= retry.wakeAt
  /\ retry' = NextAttempt(retry, retry.attempt + 1)
  /\ CallRequest("retry")
  /\ UNCHANGED << now, authVars, autoRetry, resets, calls, schedVars,
                  cipherVars, signVars, execVars, aesTrip, statsCall,
                  multi, monitor >>

(***************************************************************************)
(* QuantifyAPI.getExecutionStats.  Numbers with decimals are kept as       *)
(* integers: successRate in hundredths of a percent.                       *)
(***************************************************************************)
\* a quotient cut off instead of rounded
RoundHalfUp_floor(num, den) == num \div den

\* Math.round(num / den) for den > 0: the nearest integer, halves upwards
RoundHalfUp(num, den) == (2 * num + den) \div (2 * den)

RECURSIVE SumIntervals(_, _)
\* the sum of the intervals pushed by the loop at quantify.js:245-249
SumIntervals(res, i) ==
  IF i > Len(res) THEN 0
  ELSE (res[i].timestamp - res[i - 1].timestamp) + SumIntervals(res, i + 1)

NoExecStats ==
  [total |-> 0, successful |-> 0, failed |-> 0, successRate |-> 0,
   averageInterval |-> 0]

\* getExecutionStats(results); missing says that results is undefined or null
getExecutionStats(missing, res) ==
  IF missing \/ Len(res) = 0 THEN NoExecStats
  ELSE LET successful == Cardinality({k \in 1..Len(res) : res[k].success})
       IN  [total |-> Len(res),
            successful |-> successful,
            failed |-> Len(res) - successful,
            successRate |-> RoundHalfUp(successful * 100 * 100, Len(res)),
            averageInterval |->
              IF Len(res) > 1
              THEN RoundHalfUp(SumIntervals(res, 2), (Len(res) - 1) * 1000)
              ELSE 0]

NoStatsCall ==
  [pc |-> "none", missing |-> FALSE, results |-> << >>, out |-> NoExecStats]

\* the caller calls getExecutionStats on its list
GetExecutionStats ==
  /\ statsCall.pc = "list"
  /\ statsCall' = [statsCall EXCEPT
                     !.pc = "done",
                     !.out = getExecutionStats(statsCall.missing,
                                               statsCall.results)]
  /\ UNCHANGED << now, authVars, dispatchVars, schedVars, cipherVars,
                  signVars, execVars, retry, aesTrip, multi, monitor >>

(***************************************************************************)
(* QuantifyAPI.scheduleExecutions                                          *)
(*                                                                         *)
(* execute() is request() followed by reading response.data: it rejects    *)
(* exactly when request() rejects.  A callback is arbitrary caller code:   *)
(* it returns, it throws, or it calls stop() on the handle and returns.    *)
(***************************************************************************)
CbBehaviours == {"return", "throw", "stop"}
IntervalChoices == {0, 1}

NoSummary ==
  [totalIterations |-> 0, completedIterations |-> 0, successful |-> 0,
   failed |-> 0]

NoSchedHistory ==
  [stopCalled |-> FALSE, stopIter |-> 0, stopPc |-> "", cbThrew |-> FALSE,
   remoteFailed |-> 0, started |-> 0, cbLog |-> << >>,
   completeCalls |-> 0, summary |-> NoSummary]

ExecutionResult(i, success) ==
  [iteration |-> i, success |-> success]

CbCall(cb, r) == [cb |-> cb, iteration |-> r.iteration, success |-> r.success]

Successful(res) == Cardinality({k \in 1..Len(res) : res[k].success})
Failed(res) == Cardinality({k \in 1..Len(res) : ~res[k].success})

\* the argument of onComplete (quantify.js:200-206)
Summary(res) ==
  [totalIterations |-> iterations, completedIterations |-> Len(res),
   successful |-> Successful(res), failed |-> Failed(res)]

\* scheduler.stop(), as it is recorded in the history: the first call, the
\* iteration in progress then and where the loop was
Stopped(h, pc) ==
  [h EXCEPT !.stopCalled = TRUE,
            !.stopIter = IF h.stopCalled THEN @ ELSE h.started,
            !.stopPc = IF h.stopCalled THEN @ ELSE pc]

\* a loop that counts iterations and never looks at the stop flag
LoopCondition_ignoresStop(i, running) == i <= iterations

\* the loop condition at quantify.js:147
LoopCondition(i, running) == i <= iterations /\ running

\* the condition of the inter-iteration wait at quantify.js:190
WaitCondition(i, running) == i < iterations /\ running

\* the body of the inner try/catch after the await (quantify.js:157-187):
\* ok tells whether execute() returned, b1 and b2 what onSuccess and onError do
Recorded(ok, b1, b2) ==
  LET first == ExecutionResult(iter, ok)
      second == ExecutionResult(iter, FALSE)
  IN  IF ok /\ b1 = "throw"
      THEN [results |-> results \o << first, second >>,
            log |-> << CbCall("onSuccess", first), CbCall("onError", second) >>,
            stop |-> b2 = "stop", threw |-> TRUE, crashed |-> b2 = "throw"]
      ELSE IF ok
      THEN [results |-> Append(results, first),
            log |-> << CbCall("onSuccess", first) >>,
            stop |-> b1 = "stop", threw |-> FALSE, crashed |-> FALSE]
      ELSE [results |-> Append(results, first),
            log |-> << CbCall("onError", first) >>,
            stop |-> b2 = "stop", threw |-> b2 = "throw",
            crashed |-> b2 = "throw"]

\* a loop that ends without taking its running flag down
LoopExit_keepsRunning(res, h, b3) ==
  /\ iter' = iter + 1
  /\ currentIteration' = 0
  /\ isRunning' = isRunning
  /\ schedPc' = "completed"
  /\ results' = res
  /\ hSched' = [(IF b3 = "stop" THEN Stopped(h, "completed") ELSE h) EXCEPT
                  !.completeCalls = @ + 1,
                  !.summary = Summary(res),
                  !.cbThrew = @ \/ b3 = "throw",
                  !.cbLog = Append(@, [cb |-> "onComplete", iteration |-> 0,
                                       success |-> TRUE])]

\* the loop has ended: quantify.js:196-207, b3 is what onComplete does
LoopExit(res, h, b3) ==
  /\ iter' = iter + 1
  /\ currentIteration' = 0
  /\ isRunning' = FALSE
  /\ schedPc' = "completed"
  /\ results' = res
  /\ hSched' = [(IF b3 = "stop" THEN Stopped(h, "completed") ELSE h) EXCEPT
                  !.completeCalls = @ + 1,
                  !.summary = Summary(res),
                  !.cbThrew = @ \/ b3 = "throw",
                  !.cbLog = Append(@, [cb |-> "onComplete", iteration |-> 0,
                                       success |-> TRUE])]

\* await this.execute(...) returned a value rather than threw
ExecuteReturned == req["sched"].outcome.kind = "response"

\* what a callback does, when it is called at all
CallbackChoices(called) == IF called THEN CbBehaviours ELSE {"return"}

\* whether the loop ends after the callbacks b1 and b2 of iteration iter ran
LoopEnds(b1, b2) ==
  LET rec == Recorded(ExecuteReturned, b1, b2)
  IN  /\ ~rec.crashed
      /\ ~WaitCondition(iter, isRunning /\ ~rec.stop)
      /\ ~LoopCondition(iter + 1, isRunning /\ ~rec.stop)

\* scheduleExecutions(schedule): the closure is created and the loop runs
\* up to the await of the first execute(); pc tells whether the caller's
\* continuation, which receives the handle, is still to run
StartLoop(pc) ==
  /\ schedPc = "idle"
  /\ \E n \in 1..MaxIterations, m \in IntervalChoices :
       /\ iterations' = n
       /\ intervalMinutes' = m
  /\ results' = << >>
  /\ isRunning' = TRUE
  /\ iter' = 1
  /\ currentIteration' = 1
  /\ CallRequest("sched")
  /\ schedPc' = pc
  /\ hSched' = [hSched EXCEPT !.started = 1]

\* scheduleExecutions(schedule) called by the user
Schedule ==
  /\ StartLoop("returned")
  /\ UNCHANGED << now, authVars, autoRetry, resets, calls, sleepUntil,
                  cipherVars, signVars, execVars, utilVars >>

\* the caller's continuation has run: timers and sockets are served again
Resumed == schedPc # "returned"

\* the caller receives the handle and does not call stop() on it at once
HandleKept ==
  /\ schedPc = "returned"
  /\ schedPc' = "calling"
  /\ UNCHANGED << now, authVars, dispatchVars, iterations, intervalMinutes,
                  iter, isRunning, currentIteration, results, sleepUntil,
                  hSched, cipherVars, signVars, execVars, utilVars >>

\* iteration iter's execute() has settled: record, call back, then wait or end
IterationStep(b1, b2, b3) ==
  /\ schedPc = "calling"
  /\ req["sched"].pc = "done"
  /\   LET ok == ExecuteReturned
           rec == Recorded(ok, b1, b2)
           running == isRunning /\ ~rec.stop
           h == [(IF rec.stop THEN Stopped(hSched, "callback") ELSE hSched)
                 EXCEPT
                   !.remoteFailed = IF ok THEN @ ELSE @ + 1,
                   !.cbThrew = @ \/ rec.threw,
                   !.cbLog = @ \o rec.log]
       IN  IF rec.crashed
           THEN /\ isRunning' = FALSE
                /\ schedPc' = "crashed"
                /\ results' = rec.results
                /\ hSched' = h
                /\ UNCHANGED << iter, currentIteration, sleepUntil, req,
                                stats, netCalls >>
           ELSE IF WaitCondition(iter, running)
           THEN /\ schedPc' = "sleep"
                /\ sleepUntil' = now + intervalMinutes * 60 * 1000
                /\ results' = rec.results
                /\ isRunning' = running
                /\ hSched' = h
                /\ UNCHANGED << iter, currentIteration, req, stats, netCalls >>
           ELSE IF LoopCondition(iter + 1, running)
           THEN /\ iter' = iter + 1
                /\ currentIteration' = iter + 1
                /\ CallRequest("sched")
                /\ results' = rec.results
                /\ isRunning' = running
                /\ hSched' = [h EXCEPT !.started = @ + 1]
                /\ UNCHANGED << schedPc, sleepUntil >>
           ELSE /\ LoopExit(rec.results, h, b3)
                /\ UNCHANGED << sleepUntil, req, stats, netCalls >>

\* the same, with callbacks that may do anything
IterationDone ==
  /\ \E b1 \in CallbackChoices(ExecuteReturned) :
     \E b2 \in CallbackChoices(~ExecuteReturned \/ b1 = "throw") :
     \E b3 \in CallbackChoices(LoopEnds(b1, b2)) :
       IterationStep(b1, b2, b3)
  /\ UNCHANGED << now, authVars, autoRetry, resets, calls, iterations,
                  intervalMinutes, cipherVars, signVars, execVars, utilVars >>

\* the inter-iteration delay elapsed: i++ and the loop condition
SleepStep(b3) ==
  /\ schedPc = "sleep"
  /\ now >= sleepUntil
  /\ IF LoopCondition(iter + 1, isRunning)
     THEN /\ iter' = iter + 1
          /\ currentIteration' = iter + 1
          /\ CallRequest("sched")
          /\ schedPc' = "calling"
          /\ hSched' = [hSched EXCEPT !.started = @ + 1]
          /\ UNCHANGED << isRunning, results >>
     ELSE /\ LoopExit(results, hSched, b3)
          /\ UNCHANGED << req, stats, netCalls >>

SleepElapsed ==
  /\ \E b3 \in CbBehaviours : SleepStep(b3)
  /\ UNCHANGED << now, authVars, autoRetry, resets, calls, iterations,
                  intervalMinutes, sleepUntil, cipherVars, signVars, execVars,
                  utilVars >>

\* the caller calls stop() on the handle
Stop ==
  /\ schedPc # "idle"
  /\ isRunning' = FALSE
  /\ hSched' = Stopped(hSched, schedPc)
  /\ schedPc' = IF Resumed THEN schedPc ELSE "calling"
  /\ UNCHANGED << now, authVars, dispatchVars, iterations,
                  intervalMinutes, iter, currentIteration, results,
                  sleepUntil, cipherVars, signVars, execVars, utilVars >>

(***************************************************************************)
(* DailyExecutor: one executor, started once.                              *)
(***************************************************************************)
\* new DailyExecutor(client, options), before start()
NewExecutor(stopOnError) ==
  [pc |-> "idle", stopOnError |-> stopOnError, isRunning |-> FALSE,
   currentIteration |-> 0, results |-> << >>, scheduler |-> FALSE]

\* _handleSuccess and the first two lines of _handleError
Handled(ex, r) ==
  [ex EXCEPT !.currentIteration = r.iteration, !.results = Append(@, r)]

\* DailyExecutor.stop() reaches scheduler.stop()
StopsScheduler(ex) == ex.isRunning /\ ex.scheduler

\* DailyExecutor.stop(), as far as the executor's own fields go
ExecutorStopped(ex) ==
  IF ex.isRunning THEN [ex EXCEPT !.isRunning = FALSE] ELSE ex

\* an error handler that never reaches the scheduler
OnErrorBehaviour_never(ex) == "return"

\* what _handleError does to the loop that called it
OnErrorBehaviour(ex) ==
  IF ex.stopOnError /\ StopsScheduler(ex) THEN "stop" ELSE "return"

\* _handleError
HandledError(ex, r) ==
  IF ex.stopOnError THEN ExecutorStopped(Handled(ex, r)) ELSE Handled(ex, r)

\* _handleComplete
HandledComplete(ex) == [ex EXCEPT !.isRunning = FALSE, !.currentIteration = 0]

\* start() from the point where the client is authenticated: lines 51-64.
\* The first request leaves for the network inside scheduleExecutions, so
\* the assignment of this.scheduler, one microtask later, comes before any
\* callback of the loop.
Launch ==
  /\ StartLoop("calling")
  /\ executor' = [executor EXCEPT !.pc = "started", !.isRunning = TRUE,
                                  !.currentIteration = 0, !.results = << >>,
                                  !.scheduler = TRUE]
  /\ UNCHANGED sleepUntil

\* start(), up to its first await
ExecStart ==
  /\ executor.pc = "idle"
  /\ ~executor.isRunning
  /\ IF isTokenValid
     THEN /\ Launch
          /\ UNCHANGED authVars
     ELSE /\ logins.made < MaxLogins
          /\ logins' = [logins EXCEPT !.made = @ + 1, !.inFlight = @ + 1]
          /\ executor' = [executor EXCEPT !.pc = "auth"]
          /\ UNCHANGED << token, tokenExpiry, isAuthenticated, hLogin,
                          schedVars, stats, req, netCalls >>
  /\ UNCHANGED << now, autoRetry, resets, calls, cipherVars, signVars,
                  utilVars >>

\* the login that start() awaits was answered
ExecLoginResponse ==
  /\ executor.pc = "auth"
  /\ LoginAnswered(PlainLoginBodies)
  /\ executor' = [executor EXCEPT !.pc = "authed"]
  /\ UNCHANGED utilVars

\* the login that start() awaits failed at transport level
ExecLoginError ==
  /\ executor.pc = "auth"
  /\ LoginRejected
  /\ executor' = [executor EXCEPT !.pc = "authed"]
  /\ UNCHANGED utilVars

\* start() resumes after await this.client.authenticate()
ExecStartResumes ==
  /\ executor.pc = "authed"
  /\ IF ClientAuthenticate(logins.last)
     THEN Launch
     ELSE /\ executor' = [executor EXCEPT !.pc = "failed"]
          /\ UNCHANGED << schedVars, stats, req, netCalls >>
  /\ UNCHANGED << now, authVars, autoRetry, resets, calls, cipherVars,
                  signVars,
                  utilVars >>

\* an iteration of the executor's loop settled: the loop's step with
\* _handleSuccess, _handleError and _handleComplete as its callbacks
ExecIterationDone ==
  LET ok == ExecuteReturned
      r == ExecutionResult(iter, ok)
      b2 == OnErrorBehaviour(executor)
      handled == IF ok THEN Handled(executor, r) ELSE HandledError(executor, r)
  IN  /\ executor.pc = "started"
      /\ IterationStep("return", b2, "return")
      /\ executor' = IF LoopEnds("return", b2) THEN HandledComplete(handled)
                     ELSE handled
      /\ UNCHANGED << now, authVars, autoRetry, resets, calls, iterations,
                      intervalMinutes, cipherVars, signVars,
                      utilVars >>

\* the executor's loop wakes from its inter-iteration delay
ExecSleepElapsed ==
  /\ executor.pc = "started"
  /\ SleepStep("return")
  /\ executor' = IF LoopCondition(iter + 1, isRunning) THEN executor
                 ELSE HandledComplete(executor)
  /\ UNCHANGED << now, authVars, autoRetry, resets, calls, iterations,
                  intervalMinutes, sleepUntil, cipherVars, signVars,
                  utilVars >>

\* the user calls executor.stop() while the executor is running
ExecStop ==
  /\ executor.pc = "started"
  /\ executor.isRunning
  /\ isRunning' = (isRunning /\ ~StopsScheduler(executor))
  /\ hSched' = IF StopsScheduler(executor) THEN Stopped(hSched, schedPc)
               ELSE hSched
  /\ executor' = ExecutorStopped(executor)
  /\ UNCHANGED << now, authVars, dispatchVars, schedPc, iterations,
                  intervalMinutes, iter, currentIteration, results,
                  sleepUntil, cipherVars, signVars,
                  utilVars >>

(***************************************************************************)
(* DailyExecutor started and stopped any number of times.  Each start()    *)
(* that gets through launches a loop of its own in scheduleExecutions;     *)
(* this.scheduler is the handle of the loop launched last.  A loop's       *)
(* execute() is request() on the client: it rejects when the client has no *)
(* valid token at the call, and otherwise resolves or rejects as the       *)
(* network decides.                                                        *)
(***************************************************************************)
\* new DailyExecutor(client, {stopOnError}); awaiting counts the start()
\* calls suspended at await authenticate(), resuming tells that one of them
\* is about to resume; starts and lastOp are history: the start() calls that
\* got past the isRunning test, and the last of start() (one that launched a
\* loop) and stop() to have been called
NewMulti(stopOnError) ==
  [stopOnError |-> stopOnError, isRunning |-> FALSE,
   currentIteration |-> 0, results |-> << >>, scheduler |-> 0,
   awaiting |-> 0, resuming |-> FALSE, loops |-> << >>, starts |-> 0,
   lastOp |-> "none"]

NoMulti == NewMulti(FALSE)

\* a loop of scheduleExecutions at the await of its i-th execute()
LoopCalling(i) == [pc |-> "calling", i |-> i, running |-> TRUE,
                   sent |-> isTokenValid]

\* DailyExecutor.stop()
MultiStopped(m) ==
  IF ~m.isRunning THEN [m EXCEPT !.lastOp = "stop"]
  ELSE [m EXCEPT !.isRunning = FALSE, !.lastOp = "stop",
                 !.loops = IF m.scheduler = 0 THEN @
                           ELSE [@ EXCEPT ![m.scheduler].running = FALSE]]

\* _handleSuccess / _handleError for the result of iteration i
MultiHandled(m, i, ok) ==
  LET kept == [m EXCEPT !.currentIteration = i,
                        !.results = Append(@, ExecutionResult(i, ok))]
  IN  IF ~ok /\ m.stopOnError THEN MultiStopped(kept) ELSE kept

\* loop l leaves its for loop: quantify.js:196-207 and _handleComplete
MultiCompleted(m, l) ==
  [m EXCEPT !.loops[l].pc = "done", !.loops[l].running = FALSE,
            !.isRunning = FALSE, !.currentIteration = 0]

\* start() from line 51 on: the fields are reset and a new loop is launched
MultiLaunched(m) ==
  [m EXCEPT !.isRunning = TRUE, !.currentIteration = 0, !.results = << >>,
            !.loops = Append(@, LoopCalling(1)),
            !.scheduler = Len(m.loops) + 1, !.lastOp = "start"]

\* start(), up to its first await
MultiStart ==
  /\ ~multi.resuming
  /\ ~multi.isRunning
  /\ logins.inFlight = multi.awaiting
  /\ multi.starts < MaxStarts
  /\ IF isTokenValid
     THEN /\ multi' = [MultiLaunched(multi) EXCEPT !.starts = @ + 1]
          /\ UNCHANGED authVars
     ELSE /\ multi' = [multi EXCEPT !.awaiting = @ + 1, !.starts = @ + 1]
          /\ logins' = [logins EXCEPT !.made = @ + 1, !.inFlight = @ + 1]
          /\ UNCHANGED << token, tokenExpiry, isAuthenticated, hLogin >>
  /\ UNCHANGED << now, dispatchVars, schedVars, cipherVars, signVars,
                  execVars, retry, aesTrip, statsCall, monitor >>

\* the login one of the suspended start() calls awaits was answered
MultiLoginResponse ==
  /\ ~multi.resuming
  /\ multi.awaiting > 0
  /\ LoginAnswered(PlainLoginBodies)
  /\ multi' = [multi EXCEPT !.awaiting = @ - 1, !.resuming = TRUE]
  /\ UNCHANGED << execVars, retry, aesTrip, statsCall, monitor >>

\* the login one of the suspended start() calls awaits failed
MultiLoginError ==
  /\ ~multi.resuming
  /\ multi.awaiting > 0
  /\ LoginRejected
  /\ multi' = [multi EXCEPT !.awaiting = @ - 1, !.resuming = TRUE]
  /\ UNCHANGED << execVars, retry, aesTrip, statsCall, monitor >>

\* that start() resumes: it throws, or goes on to launch its loop
MultiStartResumes ==
  /\ multi.resuming
  /\ multi' = IF ClientAuthenticate(logins.last)
              THEN [MultiLaunched(multi) EXCEPT !.resuming = FALSE]
              ELSE [multi EXCEPT !.resuming = FALSE]
  /\ UNCHANGED << now, authVars, dispatchVars, schedVars, cipherVars,
                  signVars, execVars, retry, aesTrip, statsCall, monitor >>

\* the execute() of loop l settled: the result is handed to the executor,
\* then the loop waits, or ends when this was its last iteration or it was
\* stopped
MultiIterationDone ==
  /\ ~multi.resuming
  /\ \E l \in 1..Len(multi.loops), ok \in BOOLEAN :
       /\ multi.loops[l].pc = "calling"
       /\ ok => multi.loops[l].sent
       /\ LET handled == MultiHandled(multi, multi.loops[l].i, ok)
          IN  multi' =
                IF WaitCondition(handled.loops[l].i, handled.loops[l].running)
                THEN [handled EXCEPT !.loops[l].pc = "sleep"]
                ELSE MultiCompleted(handled, l)
  /\ UNCHANGED << now, authVars, dispatchVars, schedVars, cipherVars,
                  signVars, execVars, retry, aesTrip, statsCall, monitor >>

\* the delay of loop l elapsed: next iteration, or the end when stopped
MultiSleepElapsed ==
  /\ ~multi.resuming
  /\ \E l \in 1..Len(multi.loops) :
       /\ multi.loops[l].pc = "sleep"
       /\ multi' =
            IF LoopCondition(multi.loops[l].i + 1, multi.loops[l].running)
            THEN [multi EXCEPT
                    !.loops[l] = [LoopCalling(multi.loops[l].i + 1)
                                    EXCEPT !.running = multi.loops[l].running]]
            ELSE MultiCompleted(multi, l)
  /\ UNCHANGED << now, authVars, dispatchVars, schedVars, cipherVars,
                  signVars, execVars, retry, aesTrip, statsCall, monitor >>

\* DailyExecutor.getStatus(): progress is progressNum / progressDen percent
MultiStatus(m) ==
  [isRunning |-> m.isRunning, currentIteration |-> m.currentIteration,
   totalIterations |-> iterations,
   completedIterations |-> Len(m.results),
   successfulIterations |-> Successful(m.results),
   failedIterations |-> Failed(m.results),
   progressNum |-> IF iterations > 0 THEN Len(m.results) * 100 ELSE 0,
   progressDen |-> IF iterations > 0 THEN iterations ELSE 1]

\* the user calls executor.stop()
MultiStop ==
  /\ ~multi.resuming
  /\ multi.isRunning \/ multi.lastOp = "start"
  /\ multi' = MultiStopped(multi)
  /\ UNCHANGED << now, authVars, dispatchVars, schedVars, cipherVars,
                  signVars, execVars, retry, aesTrip, statsCall, monitor >>

(***************************************************************************)
(* AdsAPI.monitorAds.  getList() is request() followed by response.data    *)
(* || []: it resolves with what the server sent for the position, or       *)
(* rejects.  A list is the sequence of its advertisements, each standing   *)
(* for its JSON text.                                                      *)
(***************************************************************************)
AdsLists == { << >>, << "a" >>, << "b" >>, << "cc" >>, << "a", "b" >> }

\* what getList() may resolve with: a list, or data that is not an array
NotAnArray == << "{}" >>
AdsResults == AdsLists \cup {NotAnArray}

\* JSON.stringify(ads).length: the brackets, the quoted elements, the commas
RECURSIVE ElementsLength(_)
ElementsLength(ads) ==
  IF ads = << >> THEN 0
  ELSE (IF Head(ads) = "cc" THEN 4 ELSE 3) + ElementsLength(Tail(ads))
JsonLength(ads) ==
  2 + ElementsLength(ads) + (IF Len(ads) > 1 THEN Len(ads) - 1 ELSE 0)

NoHash == [n |-> -1, size |-> -1, at |-> -1]

\* _hashAds(ads) called at Date.now() = at: 'no-ads', or the three numbers
\* joined by '-'
hashAds(ads, at) ==
  IF ads = NotAnArray THEN [n |-> 0, size |-> 0, at |-> 0]
  ELSE [n |-> Len(ads), size |-> JsonLength(ads), at |-> at]

\* checks, changes, prev and stoppedAt are history: the getList() calls
\* started, the onChange calls made, what the previous check that got an
\* answer was given, and the number of checks started when stop() was called
NoMonitor ==
  [pc |-> "idle", isMonitoring |-> FALSE, intervalMinutes |-> 0,
   lastAdsHash |-> NoHash, wakeAt |-> 0, checks |-> 0, changes |-> 0,
   prev |-> << "none" >>, stoppedAt |-> -1]

\* monitorAds(positionKey, intervalMinutes, onChange): the loop runs up to
\* the await of the first getList()
MonitorAds ==
  /\ monitor.pc = "idle"
  /\ \E m \in IntervalChoices :
       monitor' = [NoMonitor EXCEPT !.pc = "fetching", !.isMonitoring = TRUE,
                                    !.intervalMinutes = m, !.checks = 1]
  /\ UNCHANGED << now, authVars, dispatchVars, schedVars, cipherVars,
                  signVars, execVars, retry, aesTrip, statsCall, multi >>

\* the loop after a delay, or at once when none was taken: the while
\* condition, then the next getList()
MonitorLoops(m) ==
  IF m.isMonitoring
  THEN [m EXCEPT !.pc = "fetching", !.checks = @ + 1]
  ELSE [m EXCEPT !.pc = "ended"]

\* the rest of an iteration: the wait when still monitoring, else the loop
\* condition right away
MonitorWaits(m, delay, at) ==
  IF m.isMonitoring
  THEN [m EXCEPT !.pc = "sleep", !.wakeAt = at + delay]
  ELSE MonitorLoops(m)

\* getList() resolved with ads after took ms; b is what onChange does when
\* it is called
MonitorFetched ==
  /\ monitor.pc = "fetching"
  /\ \E ads \in AdsResults, took \in {0, 1}, b \in CbBehaviours :
       LET at == now + took
           currentHash == hashAds(ads, at)
           changed == monitor.lastAdsHash # NoHash
                        /\ monitor.lastAdsHash # currentHash
           called == [monitor EXCEPT
                        !.changes = IF changed THEN @ + 1 ELSE @,
                        !.prev = ads,
                        !.isMonitoring = @ /\ ~(changed /\ b = "stop"),
                        !.stoppedAt = IF changed /\ b = "stop" /\ @ = -1
                                      THEN monitor.checks ELSE @]
       IN  /\ (~changed) => b = "return"
           /\ now' = at
           /\ monitor' =
                IF changed /\ b = "throw"
                THEN MonitorWaits(called, 60000, at)
                ELSE MonitorWaits([called EXCEPT !.lastAdsHash = currentHash],
                                  monitor.intervalMinutes * 60 * 1000, at)
  /\ UNCHANGED << authVars, dispatchVars, schedVars, cipherVars,
                  signVars, execVars, retry, aesTrip, statsCall, multi >>

\* getList() rejected: the catch block
MonitorFetchFails ==
  /\ monitor.pc = "fetching"
  /\ monitor' = MonitorWaits(monitor, 60000, now)
  /\ UNCHANGED << now, authVars, dispatchVars, schedVars, cipherVars,
                  signVars, execVars, retry, aesTrip, statsCall, multi >>

\* the delay elapsed
MonitorWakes ==
  /\ monitor.pc = "sleep"
  /\ monitor.checks < MaxChecks \/ ~monitor.isMonitoring
  /\ now' = IF now < monitor.wakeAt THEN monitor.wakeAt ELSE now
  /\ monitor' = MonitorLoops(monitor)
  /\ UNCHANGED << authVars, dispatchVars, schedVars, cipherVars,
                  signVars, execVars, retry, aesTrip, statsCall, multi >>

\* the caller calls stop() on the handle
MonitorStop ==
  /\ monitor.pc \notin {"idle", "ended"}
  /\ monitor.isMonitoring
  /\ monitor' = [monitor EXCEPT !.isMonitoring = FALSE,
                                !.stoppedAt = monitor.checks]
  /\ UNCHANGED << now, authVars, dispatchVars, schedVars, cipherVars,
                  signVars, execVars, retry, aesTrip, statsCall, multi >>

(***************************************************************************)
(* The response cipher applied to one envelope.                            *)
(***************************************************************************)
WholeResults ==
  { RsaFalse, RsaNull, RsaText(EmptyText), RsaText(<< P_OPEN, P_CLOSE >>),
    RsaText(<< P_OPEN, P_PLUS, P_CLOSE >>), RsaText(<< P_ZERO >>),
    RsaText(<< P_WORD >>), RsaText(<< P_PCT >>) }
BlockResults ==
  { RsaFalse, RsaText(<< P_OPEN >>), RsaText(<< P_CLOSE >>),
    RsaText(<< P_OPEN, P_CLOSE >>) }
AesResults ==
  { AesThrow, AesText(EmptyText), AesText(<< P_OPEN, P_CLOSE >>),
    AesText(<< P_WORD >>) }
ByteLengths == {0, 100, 128, 256}

Ciphertexts ==
  [whole : WholeResults, nbytes : ByteLengths, blk : [1..2 -> BlockResults],
   aes : AesResults, aesB64 : AesResults]

Envelopes ==
  { Envelope(d, code) :
      d \in {Undefined, Null, JsNumber0, JsNumber1, JsObject("a1"),
             JsObject("list"), JsString(EmptyText)},
      code \in {0, 1} }
  \cup { Envelope(Ciphertext(ct), 0) : ct \in Ciphertexts }

NotProcessed == [called |-> FALSE, env |-> NoEnvelope, tried |-> {}]

Process ==
  /\ ~processed.called
  /\ processed' = [called |-> TRUE, env |-> processApiResponse(response),
                   tried |-> DecryptionsTried(response)]
  /\ UNCHANGED << now, authVars, dispatchVars, schedVars, response, signVars,
                  execVars, utilVars >>

(***************************************************************************)
(* A text encrypted with encryptAESString and decrypted again.             *)
(***************************************************************************)
AesKeys == {"K0", "K1"}
TextPieces == {P_WORD, P_SPACE, P_ZERO}
Texts == UNION { [1..n -> TextPieces] : n \in 0..MaxTextLen }
Junk == { AesThrow, AesText(EmptyText), AesText(<< P_PCT >>) }

NoTrip ==
  [pc |-> "none", text |-> EmptyText, key |-> "K0", junk |-> AesThrow,
   cipher |-> Undefined, plain |-> Undefined]

Encrypt ==
  /\ aesTrip.pc = "text"
  /\ aesTrip' = [aesTrip EXCEPT
                   !.pc = "encrypted",
                   !.cipher = encryptAESString(aesTrip.text, aesTrip.key,
                                               aesTrip.junk)]
  /\ UNCHANGED << now, authVars, dispatchVars, schedVars, cipherVars,
                  signVars, execVars, retry, statsCall, multi, monitor >>

\* decryptAESString(cipher, key) with the key of the encryption
Decrypt ==
  /\ aesTrip.pc = "encrypted"
  /\ aesTrip' = [aesTrip EXCEPT !.pc = "decrypted",
                                !.plain = decryptAESString(aesTrip.cipher)]
  /\ UNCHANGED << now, authVars, dispatchVars, schedVars, cipherVars,
                  signVars, execVars, retry, statsCall, multi, monitor >>

(***************************************************************************)
(* The signer applied to one field map.                                    *)
(***************************************************************************)
CustomKeys == {"B", "a", "apiKey", "sign", "timestamp"}
FieldValues ==
  { JsString(<< "1" >>), JsString(<< "2" >>), JsString(EmptyText), Null,
    JsNumber0 }
Secrets == {"S1", "S2"}
ApiKey == JsString(<< "K" >>)

\* the field maps of at most MaxFields fields, in every insertion order
FieldMaps ==
  UNION { { m \in [1..n -> [k : CustomKeys, v : FieldValues]] :
              \A i, j \in 1..n : i # j => m[i].k # m[j].k } :
          n \in 0..MaxFields }

NotSigned == [called |-> FALSE, value |-> Undefined]
NotPrepared == [called |-> FALSE, value |-> << >>]

\* the same fields inserted in another order
Reorderings(obj) ==
  { [n \in 1..Len(obj) |-> obj[pi[n]]] : pi \in Permutations(1..Len(obj)) }

Sign ==
  /\ ~signature.called
  /\ signature' = [called |-> TRUE,
                   value |-> calculateSignature(customParams, apiSecret)]
  /\ UNCHANGED << now, authVars, dispatchVars, schedVars, cipherVars, execVars,
                  utilVars, customParams, apiSecret, payload, verified >>

\* the caller builds an equal map with its fields in another order
Reorder ==
  /\ signature.called
  /\ ~payload.called
  /\ \E m \in Reorderings(customParams) :
       /\ m # customParams
       /\ customParams' = m
  /\ UNCHANGED << now, authVars, dispatchVars, schedVars, cipherVars, execVars,
                  utilVars, apiSecret, signature, payload, verified >>

Prepare ==
  /\ signature.called
  /\ ~payload.called
  /\ payload' = [called |-> TRUE,
                 value |-> prepareSignedPayload(customParams, ApiKey,
                                                apiSecret)]
  /\ UNCHANGED << now, authVars, dispatchVars, schedVars, cipherVars, execVars,
                  utilVars, customParams, apiSecret, signature, verified >>

Verify ==
  /\ payload.called
  /\ verified = "none"
  /\ verified' = IF verifySignature(payload.value, apiSecret)
                 THEN "true" ELSE "false"
  /\ UNCHANGED << now, authVars, dispatchVars, schedVars, cipherVars, execVars,
                  utilVars, customParams, apiSecret, signature, payload >>

(***************************************************************************)
(* Specifications.                                                         *)
(***************************************************************************)

InitClient ==
  /\ now = 0
  /\ token = Null
  /\ tokenExpiry = NullTime
  /\ isAuthenticated = FALSE
  /\ logins = [made |-> 0, inFlight |-> 0, last |-> NotSettled, outAt |-> -1]
  /\ hLogin = NoLogin
  /\ autoRetry \in BOOLEAN
  /\ resets = 0
  /\ stats = NoStats
  /\ req = [c \in Callers |-> NewRequest]
  /\ calls = 0
  /\ netCalls = 0

InitSched ==
  /\ schedPc = "idle"
  /\ iterations = 0
  /\ intervalMinutes = 0
  /\ iter = 0
  /\ isRunning = FALSE
  /\ currentIteration = 0
  /\ results = << >>
  /\ sleepUntil = 0
  /\ hSched = NoSchedHistory

InitCipher ==
  /\ response = NoEnvelope
  /\ processed = NotProcessed

InitSign ==
  /\ customParams = << >>
  /\ apiSecret = "S1"
  /\ signature = NotSigned
  /\ payload = NotPrepared
  /\ verified = "none"

\* the client and its authentication manager, used directly
InitExec == executor = NewExecutor(FALSE)

InitUtil ==
  /\ retry = NoRetry
  /\ aesTrip = NoTrip
  /\ statsCall = NoStatsCall
  /\ multi = NoMulti
  /\ monitor = NoMonitor

Init ==
  InitClient /\ InitSched /\ InitCipher /\ InitSign /\ InitExec /\ InitUtil

Next ==
  \/ Tick
  \/ Login
  \/ LoginResponse(PlainLoginBodies)
  \/ LoginError
  \/ Logout
  \/ UserRequest
  \/ AttemptResponse("user")
  \/ AttemptFails("user")
  \/ BackoffElapsed("user")

Spec == Init /\ [][Next]_vars

\* processApiResponse on every envelope
InitCipherSpec ==
  /\ InitClient /\ InitSched /\ InitSign /\ InitExec /\ InitUtil
  /\ response \in Envelopes
  /\ processed = NotProcessed

NextCipher == Process

SpecCipher == InitCipherSpec /\ [][NextCipher]_vars

\* the signer on every field map
InitSignSpec ==
  /\ InitClient /\ InitSched /\ InitCipher /\ InitExec /\ InitUtil
  /\ customParams \in FieldMaps
  /\ apiSecret \in Secrets
  /\ signature = NotSigned
  /\ payload = NotPrepared
  /\ verified = "none"

NextSign ==
  \/ Sign
  \/ Reorder
  \/ Prepare
  \/ Verify

SpecSign == InitSignSpec /\ [][NextSign]_vars

\* the dispatcher and its statistics, resetStats() included
NextStats ==
  \/ Tick
  \/ Login
  \/ LoginResponse(PlainLoginBodies)
  \/ UserRequest
  \/ AttemptResponse("user")
  \/ AttemptFails("user")
  \/ BackoffElapsed("user")
  \/ ResetStats

SpecStats == Init /\ [][NextStats]_vars

\* the authentication manager alone
NextAuth ==
  \/ Tick
  \/ Authenticate(MaxAuthLogins)
  \/ LoginResponse(LoginBodies)
  \/ LoginError
  \/ Logout

SpecAuth == Init /\ [][NextAuth]_vars

\* the scheduler driving the client
SchedTick ==
  /\ ticks < MaxSchedTicks
  /\ Tick

NextSched ==
  \/ Resumed /\ SchedTick
  \/ Resumed /\ Login
  \/ Resumed /\ LoginResponse(PlainLoginBodies)
  \/ Schedule
  \/ HandleKept
  \/ Resumed /\ AttemptResponse("sched")
  \/ Resumed /\ AttemptFails("sched")
  \/ Resumed /\ BackoffElapsed("sched")
  \/ IterationDone
  \/ SleepElapsed
  \/ Stop

SpecSched == Init /\ [][NextSched]_vars

(***************************************************************************)
(* Properties.                                                             *)
(***************************************************************************)

\* C1: when every attempt of request() fails at transport level, the call
\* makes exactly 3 network attempts with autoRetry on, asking for a wait of
\* 1000 ms after the first failure and of 2000 ms after the second, none
\* after the last, and rejects with the error of the last attempt; with
\* autoRetry off it makes exactly 1 attempt and asks for no wait.  No attempt
\* after the first is sent before the wait has elapsed.
RetryPolicy ==
  \A c \in Callers :
    LET r == req[c]
    IN  /\ (r.pc = "done" /\ r.outcome.kind = "error") =>
             IF autoRetry
             THEN /\ r.sent = 3
                  /\ r.delays = << 1000, 2000 >>
                  /\ r.outcome.attempt = 3
             ELSE /\ r.sent = 1
                  /\ r.delays = << >>
                  /\ r.outcome.attempt = 1
        /\ r.pc = "backoff" =>
             /\ autoRetry
             /\ r.sent \in {1, 2}
             /\ Len(r.delays) = r.sent
             /\ r.delays[r.sent] = 1000 * r.sent
        /\ (r.pc = "inflight" /\ r.sent > 1) =>
             /\ Len(r.delays) = r.sent - 1
             /\ now >= r.wakeAt

RetryPolicyWitness ==
  /\ autoRetry
  /\ req["user"].pc = "done"
  /\ req["user"].outcome.kind = "error"
  /\ req["user"].sent = 3

\* the session as the history tells it: no login has succeeded since the
\* last logout, or the last one that did is 24 hours old
NoValidToken ==
  \/ hLogin.at = NullTime
  \/ now >= hLogin.at + 24 * 60 * 60 * 1000

TokenLifetime ==
  /\ Truthy(getToken) =>
       /\ hLogin.at # NullTime
       /\ now < hLogin.at + 24 * 60 * 60 * 1000
       /\ getToken = hLogin.token
  /\ NoValidToken => (getToken = Null /\ ~isTokenValid)
  /\ ~NoValidToken => (Truthy(getToken) /\ isTokenValid)

TokenLifetimeWitness ==
  /\ hLogin.at # NullTime
  /\ now = hLogin.at + 24 * 60 * 60 * 1000
  /\ isAuthenticated
  /\ logins.made = 2
  /\ token = JsString(<< P_T2 >>)

SchedEnded == schedPc \in {"completed", "crashed"}

\* C4: a failed iteration does not abort the schedule.  If stop() is never
\* called, the loop does not end before iteration n, the results are numbered
\* 1..n one per iteration, exactly n of them once the loop has ended, and
\* those with success = false are as many as the iterations whose remote
\* call failed.
FailureDoesNotAbort ==
  ~hSched.stopCalled =>
    /\ Failed(results) = hSched.remoteFailed
    /\ \A k \in 1..Len(results) : results[k].iteration = k
    /\ Len(results) <= iterations
    /\ SchedEnded => Len(results) = iterations

\* C5: after stop() the handle's isRunning() is false for good, no iteration
\* with a higher number than the one in progress at the stop is started, and
\* the iteration in progress is not interrupted: once the loop has ended its
\* result is recorded and its callback has been invoked.
StopIsCooperative ==
  hSched.stopCalled =>
    /\ ~isRunning
    /\ hSched.started <= hSched.stopIter
    /\ SchedEnded =>
         /\ \E k \in 1..Len(results) : results[k].iteration = hSched.stopIter
         /\ \E k \in 1..Len(hSched.cbLog) :
              /\ hSched.cbLog[k].iteration = hSched.stopIter
              /\ hSched.cbLog[k].cb \in {"onSuccess", "onError"}

StopIsCooperativeWitness ==
  /\ hSched.stopCalled
  /\ hSched.stopPc = "calling"
  /\ schedPc = "completed"
  /\ hSched.stopIter = 1
  /\ iterations = 2
  /\ Len(results) = 1
  /\ results[1].success

\* C6: whenever the scheduler loop has ended, by exhausting the iterations
\* or after stop(), isRunning() is false, getCurrentIteration() is 0 and
\* onComplete has been invoked exactly once (never before the end), with
\* totalIterations = the configured iterations, completedIterations = the
\* number of recorded results and successful + failed = completedIterations,
\* whatever the onSuccess and onError callbacks did.
LoopEndCompletes ==
  /\ ~SchedEnded => hSched.completeCalls = 0
  /\ SchedEnded =>
       /\ ~isRunning
       /\ currentIteration = 0
       /\ hSched.completeCalls = 1
       /\ hSched.summary.totalIterations = iterations
       /\ hSched.summary.completedIterations = Len(results)
       /\ hSched.summary.successful + hSched.summary.failed = Len(results)

\* C7: the payload prepareSignedPayload returns passes verifySignature with
\* the same secret, whatever the names of the caller's fields.
PreparedPayloadVerifies ==
  /\ verified # "false"
  /\ payload.called =>
       Prop(payload.value, "sign")
         = calculateSignature(Delete(payload.value, "sign"), apiSecret)

\* the text calculateSignature signed
SignedText == SubSeq(signature.value.text, 3, Len(signature.value.text))
Equals == {n \in 1..Len(SignedText) : SignedText[n] = "="}
Ampersands == {n \in 1..Len(SignedText) : SignedText[n] = "&"}

\* C8: calculateSignature depends only on the key/value pairs of its map:
\* every insertion order of the same pairs gives the same signature, and the
\* signed text is the pairs written key=value, in ascending key order,
\* joined by '&' with no separator at either end.
SignatureIsCanonical ==
  signature.called =>
    /\ \A m \in Reorderings(customParams) :
         calculateSignature(m, apiSecret) = signature.value
    /\ Cardinality(Equals) = Len(customParams)
    /\ Cardinality(Ampersands) = IF customParams = << >> THEN 0
                                 ELSE Len(customParams) - 1
    /\ \A n \in Ampersands : n > 1 /\ n < Len(SignedText)
    /\ \A n \in Equals :
         /\ n > 1
         /\ Has(customParams, SignedText[n - 1])
         /\ n > 2 => SignedText[n - 2] = "&"
         /\ LET v == ToText(Prop(customParams, SignedText[n - 1]))
            IN  /\ n + Len(v) <= Len(SignedText)
                /\ SubSeq(SignedText, n + 1, n + Len(v)) = v
                /\ n + Len(v) < Len(SignedText) =>
                     SignedText[n + Len(v) + 1] = "&"
    /\ \A n1, n2 \in Equals :
         n1 < n2 => KeyLess(SignedText[n1 - 1], SignedText[n2 - 1])

SignatureIsCanonicalWitness ==
  /\ signature.called
  /\ Len(customParams) = 2
  /\ customParams[1].k = "a"
  /\ customParams[2].k = "B"
  /\ customParams[1].v = JsString(<< "1" >>)
  /\ customParams[2].v = JsString(<< "2" >>)
  /\ SignedText = << "B", "=", "2", "&", "a", "=", "1" >>

\* C9: on an envelope whose data is a string, RSA is tried first and AES
\* second and the first success wins: if decryptRSAResponse yields a value
\* (anything but its absence value null), data is that value and the marker
\* is 'RSA'; otherwise, if decryptAESString yields plaintext, data is the
\* parsed plaintext, or the plaintext itself when it is not JSON, and the
\* marker is 'AES'; in both cases the envelope keeps the ciphertext it came
\* with.
FirstSuccessWins ==
  (processed.called /\ response.data.t = "string") =>
    LET rsa == decryptRSAResponse(response.data)
        aes == decryptAESString(response.data)
        out == processed.env
    IN  /\ rsa # Null =>
             /\ out.data = rsa
             /\ out.decryptionMethod = "RSA"
             /\ out.originalEncryptedData = response.data
        /\ (rsa = Null /\ aes # Null) =>
             /\ out.decryptionMethod = "AES"
             /\ out.originalEncryptedData = response.data
             /\ out.data = IF JSONIsValid(aes.text)
                           THEN JSONParse(aes.text) ELSE aes
        /\ out.code = response.code

\* C10: when both the RSA path and the AES path fail on a string data field,
\* processApiResponse returns the envelope it was given (the same data
\* string, no method marker, no original-ciphertext field), and request()
\* returns the response to its caller with the undecrypted string as data.
UndecryptedIsReturned ==
  \A c \in Callers :
    LET out == req[c].outcome
        data == out.originalData.data
    IN  (/\ req[c].pc = "done"
         /\ out.kind = "response"
         /\ ~out.parseError
         /\ data.t = "string"
         /\ ~Truthy(decryptRSAResponse(data))
         /\ ~Truthy(decryptAESString(data))) =>
          /\ processApiResponse(out.originalData) = out.originalData
          /\ out.data = data
          /\ out.decryptionMethod = "undefined"

UndecryptedIsReturnedWitness ==
  /\ req["user"].pc = "done"
  /\ req["user"].outcome.kind = "response"
  /\ req["user"].outcome.originalData.data = Ciphertext(CtBadChunk)
  /\ req["user"].outcome.data = Ciphertext(CtBadChunk)
  /\ req["user"].outcome.decryptionMethod = "undefined"

\* C11: when the login request fails at transport level or its response
\* holds no token, authenticate() settles with a value (null from the
\* manager, false from the client), never by throwing, and leaves the
\* manager's session as it was: a manager that was unauthenticated still has
\* no token and no expiry, getToken() returns none and isAuthenticated() is
\* false.
AuthFailureIsAValue ==
  [][ logins'.inFlight < logins.inFlight =>
        /\ ~logins'.last.thrown
        /\ logins'.last.how \in {"error", "noToken", "token"}
        /\ logins'.last.how \in {"error", "noToken"} =>
             /\ logins'.last.value = Null
             /\ ~ClientAuthenticate(logins'.last)
             /\ token' = token
             /\ tokenExpiry' = tokenExpiry
             /\ isAuthenticated' = isAuthenticated
             /\ ~isAuthenticated =>
                  /\ getToken' = Null
                  /\ ~isTokenValid'
                  /\ tokenExpiry' = NullTime ]_vars

AuthFailureWitness ==
  /\ logins.last.how = "noToken"
  /\ logins.inFlight = 0
  /\ ~isAuthenticated
  /\ tokenExpiry = NullTime
  /\ token = Null

\* C12: authenticate() is accepted only when the manager is unauthenticated,
\* expired or logged out: a call made while the token is valid, or while
\* another authenticate() is in progress, sends no login request and leaves
\* the stored token and expiry unchanged.
AuthenticateOnlyWhenNeeded ==
  [][ (logins'.made > logins.made /\ (isTokenValid \/ logins.inFlight > 0)) =>
        /\ logins'.inFlight = logins.inFlight
        /\ token' = token
        /\ tokenExpiry' = tokenExpiry ]_vars

\* the manager holds no session
SessionCleared ==
  token = Null /\ tokenExpiry = NullTime /\ ~isAuthenticated

\* this step is an authenticate() call succeeding
LoginSucceeds ==
  logins'.inFlight < logins.inFlight /\ logins'.last.how = "token"

ExpiredTokenIsRefreshed ==
  [][ (/\ calls' # calls
       /\ hLogin.at # NullTime
       /\ now >= hLogin.at + 24 * 60 * 60 * 1000) =>
        /\ req'["user"].outcome.kind # "NotAuthenticated"
        /\ req'["user"].sent = 1
        /\ logins'.made > logins.made ]_vars

\* C15: request() retries only after a transport-level failure.  An attempt
\* that receives an HTTP response ends the call whatever the status code and
\* whether or not the body could be parsed or decrypted: the call settles in
\* the same step with that response as it was resolved, no wait is asked for
\* and no further attempt is sent; a wait before a further attempt is only
\* entered from an attempt in flight that failed, with nothing counted as a
\* success or as decrypted.
ResponseEndsDispatch ==
  [][ \A c \in Callers :
        /\ (req[c].pc = "inflight" /\ req'[c].outcome.kind = "response") =>
             /\ req'[c].pc = "done"
             /\ req'[c].sent = req[c].sent
             /\ req'[c].attempts = req[c].attempts
             /\ req'[c].delays = req[c].delays
             /\ netCalls' = netCalls
             /\ req'[c].sent = req'[c].attempts + 1
             /\ \/ req'[c].outcome.parseError
                \/ /\ req'[c].outcome.data
                        = processApiResponse(req'[c].outcome.originalData).data
                   /\ req'[c].outcome.decryptionMethod
                        = processApiResponse(req'[c].outcome.originalData)
                            .decryptionMethod
        /\ (req[c].pc = "done" /\ req[c].outcome.kind = "response") =>
             \/ req'[c] = req[c]
             \/ req'[c].pc = "inflight" /\ req'[c].sent = 1
             \/ req'[c].outcome.kind = "NotAuthenticated"
        /\ (req[c].pc # "backoff" /\ req'[c].pc = "backoff") =>
             /\ req[c].pc = "inflight"
             /\ req'[c].attempts = req[c].attempts + 1
             /\ stats'.failed = stats.failed + 1
             /\ stats'.successful = stats.successful
             /\ stats'.encrypted = stats.encrypted ]_vars

ResponseEndsDispatchWitness ==
  /\ autoRetry
  /\ req["user"].pc = "done"
  /\ req["user"].outcome.kind = "response"
  /\ req["user"].outcome.statusCode = 500
  /\ req["user"].outcome.parseError
  /\ req["user"].sent = 2

\* while the counters have not been reset, every attempt sent is counted
\* once in requests and, once it has finished, once in successful or failed
StatsBalanced ==
  resets = 0 =>
    stats.requests = stats.successful + stats.failed
                       + (IF req["user"].pc = "inflight" THEN 1 ELSE 0)

\* C16: every network attempt of request() adds exactly one to requests when
\* it is sent and, when it finishes, exactly one to successful (a 2xx
\* response) or to failed (any other response, or a transport error), and
\* one to encrypted exactly when the response carries a decryption-method
\* marker; nothing else but resetStats() changes a counter.  Hence, while the
\* counters have not been reset and no attempt is in flight,
\* requests = successful + failed.
StatsAccounting ==
  [][ LET r == req["user"]
          r2 == req'["user"]
          finished == r.pc = "inflight" /\ r2.pc # "inflight"
          answered == finished /\ r2.outcome.kind = "response"
          ok == /\ answered
                /\ r2.outcome.statusCode >= 200
                /\ r2.outcome.statusCode < 300
          marked == answered /\ r2.outcome.decryptionMethod # "undefined"
      IN  /\ resets' = resets =>
               /\ stats'.requests = stats.requests + (netCalls' - netCalls)
               /\ stats'.successful = stats.successful + (IF ok THEN 1 ELSE 0)
               /\ stats'.failed
                    = stats.failed + (IF finished /\ ~ok THEN 1 ELSE 0)
               /\ stats'.encrypted
                    = stats.encrypted + (IF marked THEN 1 ELSE 0)
          /\ netCalls' - netCalls
               = (IF r.pc # "inflight" /\ r2.pc = "inflight" THEN 1 ELSE 0)
          /\ StatsBalanced
          /\ StatsBalanced' ]_vars

StatsAccountingWitness ==
  /\ resets = 0
  /\ req["user"].pc = "done"
  /\ req["user"].outcome.kind = "response"
  /\ req["user"].outcome.statusCode = 500
  /\ req["user"].outcome.decryptionMethod = "RSA"
  /\ stats = [requests |-> 3, successful |-> 0, failed |-> 3, encrypted |-> 1]

\* no counter is lower after the step than before it
StatsDoNotDecrease ==
  /\ stats'.requests >= stats.requests
  /\ stats'.successful >= stats.successful
  /\ stats'.failed >= stats.failed
  /\ stats'.encrypted >= stats.encrypted

\* C17: the counters requests, successful, failed and encrypted are
\* monotonic over the lifetime of a client: no operation of the client ever
\* decreases any of them.
StatsAreMonotonic == [][StatsDoNotDecrease]_vars

\* C17, amended: no operation other than resetStats() decreases a counter,
\* and resetStats() sets all four to 0.
StatsAreMonotonicBetweenResets ==
  [][ /\ resets' = resets => StatsDoNotDecrease
      /\ resets' # resets =>
           /\ stats'.requests = 0
           /\ stats'.successful = 0
           /\ stats'.failed = 0
           /\ stats'.encrypted = 0 ]_vars

StatsResetWitness ==
  /\ resets = 1
  /\ stats = [requests |-> 0, successful |-> 1, failed |-> 0, encrypted |-> 0]
  /\ req["user"].pc = "done"

\* the onSuccess / onError invocations made for iteration k
CallbacksFor(k) ==
  {n \in 1..Len(hSched.cbLog) :
     /\ hSched.cbLog[n].iteration = k
     /\ hSched.cbLog[n].cb \in {"onSuccess", "onError"}}

\* iteration k's remote call has settled
IterationSettled(k) ==
  \/ k < hSched.started
  \/ k = hSched.started /\ schedPc \notin {"returned", "calling"}

\* C18: for every iteration the scheduler runs, exactly one of onSuccess and
\* onError is invoked, exactly once, with the result recorded for that
\* iteration, onError as many times as remote calls failed; the invocation
\* has happened by the time the inter-iteration wait or the next iteration
\* begins, and none happens while the remote call is pending.
OneCallbackPerIteration ==
  /\ \A k \in 1..hSched.started :
       IF IterationSettled(k)
       THEN /\ Cardinality(CallbacksFor(k)) = 1
            /\ \A n \in CallbacksFor(k) :
                 /\ hSched.cbLog[n].success
                      = (hSched.cbLog[n].cb = "onSuccess")
                 /\ \E j \in 1..Len(results) :
                      /\ results[j].iteration = k
                      /\ results[j].success = hSched.cbLog[n].success
       ELSE CallbacksFor(k) = {}
  /\ Cardinality({n \in 1..Len(hSched.cbLog) :
                    hSched.cbLog[n].cb = "onError"}) = hSched.remoteFailed

(***************************************************************************)
(* The executor driving the scheduler and the client.                      *)
(***************************************************************************)
\* stopOnError is an option of the constructor
InitExecSpec ==
  /\ InitClient
  /\ InitSched
  /\ InitCipher
  /\ InitSign
  /\ InitUtil
  /\ executor \in { NewExecutor(stopOnError) : stopOnError \in BOOLEAN }

\* time passes, except between a settled login and the resumption of start()
ExecTick ==
  /\ executor.pc # "authed"
  /\ SchedTick

\* the user authenticates the client before start()
ExecUserLogin ==
  /\ executor.pc = "idle"
  /\ Login

\* the answer to the user's own login
ExecUserLoginResponse ==
  /\ executor.pc = "idle"
  /\ LoginResponse(PlainLoginBodies)

NextExec ==
  \/ ExecTick
  \/ ExecUserLogin
  \/ ExecUserLoginResponse
  \/ ExecStart
  \/ ExecLoginResponse
  \/ ExecLoginError
  \/ ExecStartResumes
  \/ AttemptResponse("sched")
  \/ AttemptFails("sched")
  \/ BackoffElapsed("sched")
  \/ ExecIterationDone
  \/ ExecSleepElapsed
  \/ ExecStop

SpecExec == InitExecSpec /\ [][NextExec]_vars

\* the iterations of the executor's results list that failed
FailedAt == { k \in 1..Len(executor.results) : ~executor.results[k].success }

\* the executor's loop is over
ExecEnded == executor.pc = "started" /\ SchedEnded

\* C19: with stopOnError, once an iteration has failed it is the last one
\* recorded, no later iteration has been started and the executor reports
\* isRunning = false; without stopOnError, and with no stop() from the
\* user, a failure stops nothing: the loop ends with one result per
\* configured iteration.
StopOnError ==
  /\ (executor.stopOnError /\ FailedAt # {}) =>
       /\ FailedAt = { Len(executor.results) }
       /\ hSched.started = executor.results[Len(executor.results)].iteration
       /\ ~executor.isRunning
       /\ ~isRunning
  /\ (~executor.stopOnError /\ ~hSched.stopCalled /\ ExecEnded) =>
       /\ schedPc = "completed"
       /\ Len(executor.results) = iterations
       /\ hSched.started = iterations

\* C19 witness: two iterations configured, stopOnError set, the first
\* iteration failed and the loop ended with that single result.
StopOnErrorWitness ==
  /\ executor.stopOnError
  /\ iterations = 2
  /\ schedPc = "completed"
  /\ Len(executor.results) = 1
  /\ ~executor.results[1].success
  /\ ~executor.isRunning

\* C19 witness of the default: a failure in the first of two iterations
\* and both iterations recorded.
ContinueOnErrorWitness ==
  /\ ~executor.stopOnError
  /\ schedPc = "completed"
  /\ Len(executor.results) = 2
  /\ ~executor.results[1].success

\* stop() was the first thing done with the handle, in the continuation that
\* received it
StoppedAtOnce == hSched.stopCalled /\ hSched.stopPc = "returned"

\* C20: when stop() is called on the handle right after scheduleExecutions()
\* has returned it, before control is yielded to any other task, nothing is
\* executed: no remote operation is invoked, no result is recorded and no
\* onSuccess / onError callback runs.
StopAtOnceRunsNothing ==
  StoppedAtOnce =>
    /\ netCalls = 0
    /\ results = << >>
    /\ CallbacksFor(1) = {}

\* what the loop does after a stop() at once: the first iteration, whose
\* request left inside scheduleExecutions, is recorded and called back, and
\* no second iteration is started
StopAtOnceRunsFirstIteration ==
  (StoppedAtOnce /\ SchedEnded /\ ~hSched.cbThrew) =>
    /\ Len(results) = 1
    /\ Cardinality(CallbacksFor(1)) = 1
    /\ hSched.started = 1

\* a stop() at once after which the first iteration's request, sent before
\* the handle was returned, succeeded and was recorded
StopAtOnceWitness ==
  /\ StoppedAtOnce
  /\ schedPc = "completed"
  /\ iterations = 2
  /\ netCalls = 1
  /\ Len(results) = 1
  /\ results[1].success

(***************************************************************************)
(* executeWithRetry on the client.                                         *)
(***************************************************************************)
NextRetry ==
  \/ Tick
  \/ Login
  \/ LoginResponse(PlainLoginBodies)
  \/ RetryCall
  \/ AttemptResponse("retry")
  \/ AttemptFails("retry")
  \/ BackoffElapsed("retry")
  \/ RetrySettled
  \/ RetryWakes

SpecRetry == Init /\ [][NextRetry]_vars

\* the execute() calls made so far
Executes == Len(retry.calledAt)

\* C21: executeWithRetry calls execute at most maxRetries times and stops at
\* the first call that returns, yielding that call's result with success =
\* true and attempt = the number of that call; after failed attempt
\* k < maxRetries it waits retryDelay * k before attempt k + 1; when all
\* attempts failed it rejects with the last failure, without a wait after
\* the last attempt.
RetryLoop ==
  /\ Executes <= retry.maxRetries
  /\ retry.pc = "returned" =>
       /\ retry.settled = req["retry"].outcome
       /\ retry.settled.kind = "response"
       /\ retry.success
       /\ retry.resultAttempt = Executes
       /\ Len(retry.failedAt) = Executes - 1
  /\ \A k \in 1..Len(retry.waits) :
       /\ retry.waits[k] = retry.retryDelay * k
       /\ k < retry.maxRetries
       /\ k + 1 <= Executes =>
            retry.calledAt[k + 1] >= retry.failedAt[k] + retry.retryDelay * k
  /\ Len(retry.waits) = IF retry.pc = "waiting" \/ Executes = 0
                        THEN Executes ELSE Executes - 1
  /\ (retry.pc = "rejected" /\ retry.maxRetries > 0) =>
       /\ Executes = retry.maxRetries
       /\ Len(retry.failedAt) = retry.maxRetries
       /\ retry.settled = req["retry"].outcome
       /\ retry.settled.kind \in {"error", "NotAuthenticated"}

\* C21 witness: three attempts allowed, the first two failed and were
\* followed by waits of retryDelay and 2 * retryDelay, the third returned.
RetryLoopWitness ==
  /\ retry.pc = "returned"
  /\ retry.maxRetries = 3
  /\ retry.retryDelay = RetryUnit
  /\ retry.resultAttempt = 3
  /\ retry.waits = << RetryUnit, 2 * RetryUnit >>

\* all attempts failed: the rejection comes with the last attempt's failure
RetryExhaustedWitness ==
  /\ retry.pc = "rejected"
  /\ retry.maxRetries = 2
  /\ Len(retry.failedAt) = 2
  /\ Len(retry.waits) = 1

\* the values of the fields named token in the tree under v
RECURSIVE TokenFields(_)
TokenFields(v) ==
  IF ~IsObject(v) THEN {}
  ELSE LET f == ObjFields(v.id)
       IN  UNION { (IF f[n].k = "token" THEN {f[n].v} ELSE {})
                     \cup TokenFields(f[n].v) : n \in 1..Len(f) }

\* the login responses whose token search has been carried out
Searched == logins.last.how \in {"token", "noToken"}

\* C22: the token search over a login response returns the value of a field
\* named token wherever it is nested in the object tree, and none when no
\* object of the tree has a token field.
TokenSearchFindsAnyToken ==
  Searched =>
    IF TokenFields(logins.last.data) = {}
    THEN logins.last.value = Null
    ELSE logins.last.value \in TokenFields(logins.last.data)

\* C22 as the code has it: a token field counts when its value is truthy;
\* the search returns the value of such a field wherever it is nested, and
\* none when the tree has no such field.
TokenSearchFindsTruthyToken ==
  Searched =>
    LET usable == { v \in TokenFields(logins.last.data) : Truthy(v) }
    IN  IF usable = {}
        THEN logins.last.value = Null
        ELSE logins.last.value \in usable

\* C22 witness: a token three objects deep, among sibling keys, was found
TokenSearchWitness ==
  /\ logins.last.how = "token"
  /\ logins.last.data = JsObject("deep1")
  /\ logins.last.value = JsString(<< P_T1 >>)

\* a tree without any token field was searched
TokenSearchNoneWitness ==
  /\ logins.last.how = "noToken"
  /\ logins.last.data = JsObject("none1")

(***************************************************************************)
(* The AES round trip on every text.                                       *)
(***************************************************************************)
InitAesSpec ==
  /\ InitClient /\ InitSched /\ InitCipher /\ InitSign /\ InitExec
  /\ retry = NoRetry
  /\ statsCall = NoStatsCall
  /\ multi = NoMulti
  /\ monitor = NoMonitor
  /\ aesTrip \in { [NoTrip EXCEPT !.pc = "text", !.text = x, !.key = k,
                                  !.junk = j] :
                     x \in Texts, k \in AesKeys, j \in Junk }

NextAes ==
  \/ Encrypt
  \/ Decrypt

SpecAes == InitAesSpec /\ [][NextAes]_vars

\* C23: for every text, the empty text included, and every key,
\* decryptAESString(encryptAESString(text, key), key) is exactly text.
AesRoundTrip ==
  aesTrip.pc = "decrypted" => aesTrip.plain = JsString(aesTrip.text)

\* the round trip of a text that is not empty
AesRoundTripNonEmpty ==
  (aesTrip.pc = "decrypted" /\ aesTrip.text # EmptyText) =>
    aesTrip.plain = JsString(aesTrip.text)

\* the round trip of the empty text never gives the empty text back
AesRoundTripEmpty ==
  (aesTrip.pc = "decrypted" /\ aesTrip.text = EmptyText) =>
    aesTrip.plain \in {Null, JsString(<< P_PCT >>)}

\* a two-piece text went through the round trip
AesRoundTripWitness ==
  /\ aesTrip.pc = "decrypted"
  /\ Len(aesTrip.text) = 2
  /\ aesTrip.plain = JsString(aesTrip.text)

\* the caller's fields that the signer does not strip
CallerKept == SelectSeq(customParams, LAMBDA f : ~IsStripped(f.v))

\* the fields that remain after the defaults are added and the empty values
\* are stripped: the caller's, then timestamp and apiKey where absent
Remaining ==
  LET withTime == IF Has(CallerKept, "timestamp") THEN CallerKept
                  ELSE Append(CallerKept, Field("timestamp", JsTimestamp))
  IN  IF Has(withTime, "apiKey") THEN withTime
      ELSE Append(withTime, Field("apiKey", ApiKey))

\* C24: the payload prepareSignedPayload returns has no field whose value is
\* the empty string, null or undefined, keeps every other field of the
\* caller with its value (a timestamp or an apiKey of the caller included),
\* always contains timestamp, apiKey and sign, and its sign is the signature
\* of the fields that remain after stripping.
PreparedPayloadContents ==
  payload.called =>
    /\ \A n \in 1..Len(payload.value) : ~IsStripped(payload.value[n].v)
    /\ \A n \in 1..Len(CallerKept) :
         /\ Has(payload.value, CallerKept[n].k)
         /\ Prop(payload.value, CallerKept[n].k) = CallerKept[n].v
    /\ Has(payload.value, "timestamp")
    /\ Has(payload.value, "apiKey")
    /\ Has(payload.value, "sign")
    /\ Prop(payload.value, "sign") = calculateSignature(Remaining, apiSecret)

\* the caller's fields that the signer replaces: a field named sign, and a
\* timestamp or an apiKey whose value is falsy without being empty
Replaced(f) ==
  \/ f.k = "sign"
  \/ f.k \in {"timestamp", "apiKey"} /\ ~Truthy(f.v)

\* what holds of the payload: as C24, for the caller's fields that are not
\* replaced
PreparedPayloadContentsKept ==
  payload.called =>
    /\ \A n \in 1..Len(payload.value) : ~IsStripped(payload.value[n].v)
    /\ \A n \in 1..Len(CallerKept) :
         ~Replaced(CallerKept[n]) =>
           Prop(payload.value, CallerKept[n].k) = CallerKept[n].v
    /\ Has(payload.value, "timestamp")
    /\ Has(payload.value, "apiKey")
    /\ Has(payload.value, "sign")
    /\ (\A n \in 1..Len(CallerKept) : ~Replaced(CallerKept[n])) =>
         Prop(payload.value, "sign") = calculateSignature(Remaining, apiSecret)

\* a payload prepared from a caller's timestamp and an empty field
PreparedPayloadContentsWitness ==
  /\ payload.called
  /\ Len(customParams) = 2
  /\ Prop(customParams, "timestamp") = JsString(<< "1" >>)
  /\ Prop(customParams, "a") = JsString(EmptyText)
  /\ Prop(payload.value, "timestamp") = JsString(<< "1" >>)
  /\ Len(payload.value) = 3

\* C25: processApiResponse is a no-op when the envelope's data is not a
\* string (object, array, number, null or missing): the envelope comes back
\* with data and every other field unchanged and without a method marker,
\* and neither RSA nor AES decryption is attempted.
NonStringIsLeftAlone ==
  (processed.called /\ response.data.t # "string") =>
    /\ processed.env = response
    /\ processed.env.data = response.data
    /\ processed.env.code = response.code
    /\ processed.env.decryptionMethod = "undefined"
    /\ processed.env.originalEncryptedData = Undefined
    /\ processed.tried = {}

\* C25 witness: an envelope with an object as data went through
NonStringIsLeftAloneWitness ==
  /\ processed.called
  /\ response = Envelope(JsObject("a1"), 1)
  /\ processed.env = response

(***************************************************************************)
(* getExecutionStats on every list.                                        *)
(***************************************************************************)
Timestamps == {0, 1500, 4000}
ResultLists ==
  UNION { [1..n -> [success : BOOLEAN, timestamp : Timestamps]] :
            n \in 0..MaxResults }

InitStatsCallSpec ==
  /\ InitClient /\ InitSched /\ InitCipher /\ InitSign /\ InitExec
  /\ retry = NoRetry
  /\ aesTrip = NoTrip
  /\ multi = NoMulti
  /\ monitor = NoMonitor
  /\ statsCall \in
       { [NoStatsCall EXCEPT !.pc = "list", !.results = res] :
           res \in ResultLists }
       \cup { [NoStatsCall EXCEPT !.pc = "list", !.missing = TRUE] }

NextStatsCall == GetExecutionStats

SpecStatsCall == InitStatsCallSpec /\ [][NextStatsCall]_vars

\* C26: on an empty or missing list getExecutionStats returns zero for
\* total, successful, failed, successRate and averageInterval; on a list
\* that is not empty total is its length, successful + failed = total,
\* successRate is successful / total * 100 rounded to two decimals, and
\* averageInterval is 0 when the list has one element.
ExecutionStatsAreSound ==
  statsCall.pc = "done" =>
    LET out == statsCall.out
        res == statsCall.results
    IN  IF statsCall.missing \/ res = << >>
        THEN /\ out.total = 0
             /\ out.successful = 0
             /\ out.failed = 0
             /\ out.successRate = 0
             /\ out.averageInterval = 0
        ELSE /\ out.total = Len(res)
             /\ out.successful = Successful(res)
             /\ out.successful + out.failed = out.total
             /\ 2 * out.successRate * out.total
                  > 2 * 10000 * out.successful - out.total
             /\ 2 * out.successRate * out.total
                  <= 2 * 10000 * out.successful + out.total
             /\ Len(res) = 1 => out.averageInterval = 0

\* C26 witness: two of three succeeded, a rate of 66.67
ExecutionStatsWitness ==
  /\ statsCall.pc = "done"
  /\ Len(statsCall.results) = 3
  /\ statsCall.out.successful = 2
  /\ statsCall.out.successRate = 6667

\* the statistics of no list at all
ExecutionStatsMissingWitness ==
  /\ statsCall.pc = "done"
  /\ statsCall.missing
  /\ statsCall.out = NoExecStats

\* C27: every network attempt request() sends, a retry after a backoff
\* included, carries a session token that is valid when the attempt is sent;
\* when the token has expired or logout() was called since the initial test,
\* no attempt is sent and the dispatch fails as not authenticated.
EveryAttemptCarriesToken ==
  [][ \A c \in Callers :
        req'[c].sent > req[c].sent =>
          /\ ~NoValidToken
          /\ Truthy(req'[c].header)
          /\ req'[c].header = hLogin.token ]_vars

\* what holds of the first attempt of a call: it is sent with the token of
\* the session
FirstAttemptCarriesToken ==
  [][ \A c \in Callers :
        (req'[c].sent > req[c].sent /\ req'[c].sent = 1) =>
          /\ ~NoValidToken
          /\ req'[c].header = hLogin.token ]_vars

\* a retry went out with no token after a logout during the backoff
RetryWithoutTokenWitness ==
  /\ req["user"].pc = "inflight"
  /\ req["user"].sent = 2
  /\ req["user"].header = Null
  /\ hLogin.at = NullTime

\* one result per iteration, numbered 1, 2, ..., with the remote outcome
OnePerIteration(res, h) ==
  /\ \A k \in 1..Len(res) : res[k].iteration = k
  /\ Len(res) <= iterations
  /\ Failed(res) = h.remoteFailed

\* C28: each iteration the scheduler starts contributes exactly one result,
\* whose success flag tells the outcome of that iteration's remote call and
\* nothing about a callback; the iteration numbers in results are 1, 2, ...
\* without duplicates, results is never longer than iterations, and a
\* recorded entry is never changed or removed.
ResultsAreAppendOnly ==
  [][ /\ OnePerIteration(results', hSched')
      /\ Len(results') >= Len(results)
      /\ SubSeq(results', 1, Len(results)) = results ]_vars

\* the same, as long as no callback has thrown
ResultsAreAppendOnlyUnlessThrown ==
  [][ ~hSched'.cbThrew =>
        /\ OnePerIteration(results', hSched')
        /\ Len(results') >= Len(results)
        /\ SubSeq(results', 1, Len(results)) = results ]_vars

\* an iteration recorded twice: its onSuccess threw
RecordedTwiceWitness ==
  /\ Len(results) = 2
  /\ results[1].iteration = 1 /\ results[1].success
  /\ results[2].iteration = 1 /\ ~results[2].success
  /\ hSched.remoteFailed = 0


(***************************************************************************)
(* One DailyExecutor and whatever sequence of start() and stop() calls.    *)
(***************************************************************************)
InitMultiSpec ==
  /\ InitClient
  /\ schedPc = "idle"
  /\ iterations \in 1..MaxIterations
  /\ intervalMinutes = 0
  /\ iter = 0
  /\ isRunning = FALSE
  /\ currentIteration = 0
  /\ results = << >>
  /\ sleepUntil = 0
  /\ hSched = NoSchedHistory
  /\ InitCipher
  /\ InitSign
  /\ InitExec
  /\ retry = NoRetry
  /\ aesTrip = NoTrip
  /\ statsCall = NoStatsCall
  /\ multi \in { NewMulti(stopOnError) : stopOnError \in BOOLEAN }
  /\ monitor = NoMonitor

\* the user authenticates the client before the first start()
MultiUserLogin ==
  /\ multi.lastOp = "none"
  /\ multi.awaiting = 0
  /\ ~multi.resuming
  /\ Login

\* the answer to the user's own login
MultiUserLoginResponse ==
  /\ multi.awaiting = 0
  /\ ~multi.resuming
  /\ LoginResponse(PlainLoginBodies)

NextMulti ==
  \/ MultiUserLogin
  \/ MultiUserLoginResponse
  \/ MultiStart
  \/ MultiLoginResponse
  \/ MultiLoginError
  \/ MultiStartResumes
  \/ MultiIterationDone
  \/ MultiSleepElapsed
  \/ MultiStop

SpecMulti == InitMultiSpec /\ [][NextMulti]_vars

\* the loops that have not finished, and those awaiting their execute()
LoopsActive == { l \in 1..Len(multi.loops) : multi.loops[l].pc # "done" }
LoopsCalling == { l \in 1..Len(multi.loops) : multi.loops[l].pc = "calling" }

\* C29: a DailyExecutor never has two scheduler loops active at once, so no
\* two loops have the remote operation in flight together, and once stop()
\* was the last call no loop the executor launched is still set to run.
OneLoopAtATime ==
  /\ Cardinality(LoopsActive) <= 1
  /\ Cardinality(LoopsCalling) <= 1
  /\ multi.lastOp = "stop" =>
       \A l \in 1..Len(multi.loops) : ~multi.loops[l].running

\* the loop launched by the most recent start()
LatestLoop(m) == m.loops[Len(m.loops)]

\* C30: while the loop of the most recent start() has not finished and
\* stop() has not been called since, the executor reports isRunning, and no
\* step other than a start() takes its currentIteration back to 0.
RunningWhileLatestLoopRuns ==
  [][ (/\ multi'.lastOp = "start"
       /\ LatestLoop(multi').pc # "done")
      => /\ multi'.isRunning
         /\ (Len(multi'.loops) = Len(multi.loops)
               /\ multi'.currentIteration = 0)
              => multi.currentIteration = 0 ]_vars

\* C31: the results a DailyExecutor reports belong to one run only: no
\* iteration number appears twice, completedIterations is the sum of
\* successfulIterations and failedIterations and at most totalIterations,
\* and progress is at most 100.
StatusCountsOneRun ==
  LET st == MultiStatus(multi)
  IN  /\ \A a, b \in 1..Len(multi.results) :
           a # b => multi.results[a].iteration # multi.results[b].iteration
      /\ st.completedIterations = st.successfulIterations + st.failedIterations
      /\ st.completedIterations <= st.totalIterations
      /\ st.progressNum <= 100 * st.progressDen

\* C32: a login in flight when logout() is called does not re-establish the
\* session: as long as no authenticate() has been started since the last
\* logout(), there is no token and the manager is not authenticated.
LogoutIsFinal ==
  logins.outAt = logins.made => (getToken = Null /\ ~isAuthenticated)

\* C33: under any interleaving of request() calls and resetStats() with
\* in-flight attempts, encrypted <= successful + failed <= requests.
StatsAreOrdered ==
  /\ stats.encrypted <= stats.successful + stats.failed
  /\ stats.successful + stats.failed <= stats.requests

(***************************************************************************)
(* One client shared by a schedule and by the caller's own requests.       *)
(***************************************************************************)
NextShared ==
  \/ Resumed /\ SchedTick
  \/ Resumed /\ Login
  \/ Resumed /\ LoginResponse(PlainLoginBodies)
  \/ Schedule
  \/ HandleKept
  \/ Resumed /\ AttemptResponse("sched")
  \/ Resumed /\ AttemptFails("sched")
  \/ Resumed /\ BackoffElapsed("sched")
  \/ IterationDone
  \/ SleepElapsed
  \/ Stop
  \/ Resumed /\ UserRequest
  \/ Resumed /\ AttemptResponse("user")
  \/ Resumed /\ AttemptFails("user")
  \/ Resumed /\ BackoffElapsed("user")

SpecShared == Init /\ [][NextShared]_vars

\* the request() calls that have a network call in flight
InFlight == { c \in Callers : req[c].pc = "inflight" }

\* C34: at any time at most one network call issued through request() is in
\* flight per client, also while a scheduler iteration is in flight and the
\* caller issues further requests.
OneDispatchPermit == Cardinality(InFlight) <= 1

\* RSA decryption, single-block or chunked, produced a non-empty plaintext
RsaProducedPlaintext ==
  /\ HasCiphertext(response)
  /\ RsaPlaintext(response.data.ct).r = "text"
  /\ RsaPlaintext(response.data.ct).text # EmptyText

\* C35: whenever RSA decryption produced a non-empty plaintext, AES is not
\* tried and the envelope is not returned with the marker 'AES'.
AesOnlyAfterRsaFailed ==
  (processed.called /\ RsaProducedPlaintext) =>
    /\ "AES" \notin processed.tried
    /\ processed.env.decryptionMethod # "AES"

\* the values of the token fields reachable from v through objects alone
RECURSIVE ObjectTokenFields(_)
ObjectTokenFields(v) ==
  IF v.t # "object" THEN {}
  ELSE LET f == ObjFields(v.id)
       IN  UNION { (IF f[n].k = "token" THEN {f[n].v} ELSE {})
                     \cup ObjectTokenFields(f[n].v) : n \in 1..Len(f) }

\* C36: the token search descends through object-valued fields only and
\* leaves arrays untouched: a token reachable only through an element of an
\* array is not returned, and the search reports none in that case.
TokenSearchSkipsArrays ==
  Searched =>
    LET usable == { v \in ObjectTokenFields(logins.last.data) : Truthy(v) }
    IN  usable = {} => logins.last.value = Null

\* C36 as the code has it: the search descends through arrays as it does
\* through objects, so a truthy token reachable only through an element of
\* an array is returned.
TokenSearchEntersArrays ==
  Searched =>
    LET viaObjects == { v \in ObjectTokenFields(logins.last.data) : Truthy(v) }
        usable == { v \in TokenFields(logins.last.data) : Truthy(v) }
    IN  (viaObjects = {} /\ usable # {}) => logins.last.value \in usable

\* C36 witness: the only token of the response sits in the second element
\* of an array, and the search returned it
TokenSearchEntersArraysWitness ==
  /\ logins.last.how = "token"
  /\ logins.last.data = JsObject("inarr1")
  /\ logins.last.value = JsString(<< P_T1 >>)

\* the plaintexts of the 128-byte blocks of ct, concatenated in block order
InBlockOrder(ct) ==
  IF NumChunks(ct.nbytes) = 0 THEN EmptyText
  ELSE IF NumChunks(ct.nbytes) = 1 THEN ct.blk[1].text
  ELSE ct.blk[1].text \o ct.blk[2].text

\* what decryptRSAResponse makes of an RSA plaintext, Null when it rejects it
RsaValue(text) ==
  IF text = EmptyText \/ URIMalformed(ReplacePlus(text)) THEN Null
  ELSE IF ~JSONIsValid(decodeURIComponent(ReplacePlus(text))) THEN Null
  ELSE JSONParse(decodeURIComponent(ReplacePlus(text)))

\* the envelope came back decrypted by RSA exactly when every block
\* decrypted and the blocks in order give a usable document, which is then
\* its data
ChunkedOutcome(ct, env) ==
  LET whole == (\A k \in 1..NumChunks(ct.nbytes) : ct.blk[k].r = "text")
      value == RsaValue(InBlockOrder(ct))
  IN  /\ env.decryptionMethod = "RSA" <=> (whole /\ Truthy(value))
      /\ env.decryptionMethod = "RSA" => env.data = value

\* C37: chunked RSA decryption is attempted whenever single-block
\* decryption yields no non-empty plaintext, and it is all-or-nothing: the
\* plaintext is the concatenation of all block plaintexts in block order if
\* every block decrypts, and the RSA path fails if any block fails.
ChunkedWheneverSingleIsEmpty ==
  (processed.called /\ HasCiphertext(response)) =>
    LET ct == response.data.ct
    IN  (ct.whole.r \in {"false", "null"} \/ ct.whole.text = EmptyText)
          => ChunkedOutcome(ct, processed.env)

\* what the code does: chunked decryption is attempted when the
\* single-block decryption returned false or null, and is all-or-nothing;
\* an empty string from the single-block decryption is not retried and
\* fails the RSA path.
ChunkedIsAllOrNothing ==
  (processed.called /\ HasCiphertext(response)) =>
    LET ct == response.data.ct
    IN  /\ ct.whole.r \in {"false", "null"}
             => ChunkedOutcome(ct, processed.env)
        /\ (ct.whole.r = "text" /\ ct.whole.text = EmptyText)
             => processed.env.decryptionMethod # "RSA"

\* single-block decryption failed, the two blocks decrypted and their
\* plaintexts in order were parsed into the data
ChunkedIsAllOrNothingWitness ==
  /\ processed.called
  /\ response.data.ct.whole = RsaFalse
  /\ response.data.ct.nbytes = 256
  /\ response.data.ct.blk = << RsaText(<< P_OPEN >>), RsaText(<< P_CLOSE >>) >>
  /\ processed.env.decryptionMethod = "RSA"
  /\ processed.env.data = JsObject("a1")

\* a failed second block failed the RSA path although the first block alone
\* is a document
ChunkedPartialWitness ==
  /\ processed.called
  /\ response.data.ct.whole = RsaFalse
  /\ response.data.ct.nbytes = 256
  /\ response.data.ct.blk = << RsaText(<< P_OPEN, P_CLOSE >>), RsaFalse >>
  /\ processed.env.decryptionMethod # "RSA"

\* the step in which the awaited execute() of iteration iter settles and
\* the rest of the loop body runs
IterationEnds == schedPc = "calling" /\ schedPc' # "calling"

\* the waits of a schedule, step by step, for the iterations that ended in
\* the states `ended`
WaitsAsSpecified(ended) ==
  /\ (IterationEnds /\ schedPc' \in ended) =>
       /\ schedPc' = "sleep" <=> (iter < iterations /\ ~hSched'.stopCalled)
       /\ schedPc' = "sleep" =>
            sleepUntil' = now + intervalMinutes * 60000
  /\ (schedPc' = "sleep" /\ schedPc # "sleep") => IterationEnds
  /\ hSched'.started > hSched.started =>
       \/ hSched.started = 0
       \/ /\ schedPc = "sleep"
          /\ now >= sleepUntil
          /\ ~hSched.stopCalled

\* C38: after iteration i the scheduler waits if and only if i < iterations
\* and stop() has not been called, for intervalMinutes x 60000 ms exactly;
\* there is no wait before iteration 1, none after the last iteration and
\* none once stop() has been observed, and iteration i+1 never starts before
\* the wait after iteration i has elapsed.
WaitsBetweenIterations ==
  [][ WaitsAsSpecified({"sleep", "completed", "crashed"}) ]_vars

\* the same, for the iterations whose callbacks did not end the loop by
\* throwing
WaitsBetweenIterationsUnlessCrashed ==
  [][ WaitsAsSpecified({"sleep", "completed"}) ]_vars

(***************************************************************************)
(* The scheduler with a clock that always reaches the next deadline, every *)
(* remote call answered or failed in the end, every elapsed delay and      *)
(* every settled call followed by the continuation that awaits it.  The    *)
(* client is authenticated, or fails to be, before the schedule starts.    *)
(***************************************************************************)
NextSchedLive ==
  \/ Resumed /\ AdvanceClock
  \/ schedPc = "idle" /\ logins.made = 0 /\ Login
  \/ schedPc = "idle" /\ LoginResponse(PlainLoginBodies)
  \/ Schedule
  \/ HandleKept
  \/ Resumed /\ AttemptResponse("sched")
  \/ Resumed /\ AttemptFails("sched")
  \/ Resumed /\ BackoffElapsed("sched")
  \/ IterationDone
  \/ SleepElapsed
  \/ Stop

RemoteCallReturns ==
  Resumed /\ (AttemptResponse("sched") \/ AttemptFails("sched"))

SchedFairness ==
  /\ WF_vars(Resumed /\ AdvanceClock)
  /\ WF_vars(HandleKept)
  /\ WF_vars(RemoteCallReturns)
  /\ WF_vars(Resumed /\ BackoffElapsed("sched"))
  /\ WF_vars(IterationDone)
  /\ WF_vars(SleepElapsed)

SpecSchedLive == Init /\ [][NextSchedLive]_vars /\ SchedFairness

\* C39: when every remote call eventually returns and every delay
\* eventually elapses, a schedule that was started eventually finishes,
\* whether or not stop() is called and whatever the callbacks do:
\* isRunning() becomes false and stays false; and the starting call returns
\* its handle while the loop is still running.
ScheduleFinishes ==
  /\ [][ (schedPc = "idle" /\ schedPc' # "idle")
           => (schedPc' = "returned" /\ isRunning') ]_vars
  /\ [][ (schedPc # "idle" /\ ~isRunning) => ~isRunning' ]_vars
  /\ (schedPc # "idle") ~> ~isRunning

\* C39 witness: a schedule of two iterations ran to its end, wait included
ScheduleFinishesWitness ==
  /\ schedPc = "completed"
  /\ ~isRunning
  /\ iterations = 2
  /\ Len(results) = 2
  /\ ~hSched.stopCalled

(***************************************************************************)
(* One monitorAds() loop.                                                  *)
(***************************************************************************)
NextMonitor ==
  \/ MonitorAds
  \/ MonitorFetched
  \/ MonitorFetchFails
  \/ MonitorWakes
  \/ MonitorStop

SpecMonitor == Init /\ [][NextMonitor]_vars

\* C40: monitorAds invokes onChange only when the list fetched differs from
\* the list of the previous check that got one: two consecutive checks that
\* return the same list produce no onChange call; and after stop() no
\* further check is started.
OnChangeOnlyOnChange ==
  [][ /\ monitor'.changes > monitor.changes => monitor'.prev # monitor.prev
      /\ monitor.stoppedAt # -1 => monitor'.checks = monitor.checks ]_vars

\* what does hold: no onChange at the first check, and no check after stop()
NoCheckAfterStop ==
  [][ /\ monitor'.changes > monitor.changes => monitor.prev # << "none" >>
      /\ monitor.stoppedAt # -1 => monitor'.checks = monitor.checks ]_vars

====
